---- MODULE Spec2Model ----
(***************************************************************************)
(* A model of the sentry-options runtime: the schema registry, the values  *)
(* snapshot behind its RwLock, the watcher's reload, Options::get, and the *)
(* thread-local override store of the testing module with its guards.      *)
(***************************************************************************)
EXTENDS Integers, Sequences, FiniteSets, TLC

(***************************************************************************)
(* Bounds of the model.                                                    *)
(***************************************************************************)
\* how many times the values directory is rewritten
MaxDiskWrites == 1
\* how many writes the tests make to the override stores in all: a
\* set_override, a clear_override, or one entry of an override_options batch
MaxOps == 3

Threads == {"t1", "t2"}
Namespaces == {"n1", "n2"}
Keys == {"k1", "k2"}

(***************************************************************************)
(* serde_json::Value, as <<kind, payload>>.  NoValue stands for None.      *)
(***************************************************************************)
JInt(n) == <<"i64", n>>
JBool(n) == <<"bool", n>>
NoValue == <<"none", 0>>
JsonValues == {JInt(1), JInt(2), JBool(1)}
\* the values a values file may give an option
DiskValues == {JInt(1), JBool(1)}

\* all maps from a subset of D to R (a HashMap with keys in D)
PartialMaps(D, R) == UNION {[S -> R] : S \in SUBSET D}

(***************************************************************************)
(* SchemaRegistry: namespace -> NamespaceSchema.options, each option with  *)
(* its option_type and default.                                            *)
(***************************************************************************)
OptionSchema(ty, dflt) == [option_type |-> ty, default |-> dflt]

RegistryA ==
    [n \in {"n1"} |-> [k \in {"k1"} |-> OptionSchema("int", JInt(0))]]

RegistryB ==
    [n \in {"n1"} |->
        [k \in {"k1", "k2"} |->
            IF k = "k1" THEN OptionSchema("int", JInt(0))
                        ELSE OptionSchema("bool", JBool(0))]]

Registries == {RegistryA, RegistryB}

VARIABLES
    registry,     \* Options.registry, immutable after construction
    values,       \* Options.values: the map behind the RwLock
    writing,      \* TRUE while the watcher holds the write lock
    readers,      \* the threads that hold the read lock
    disk,         \* the content of the values directory
    diskWrites,   \* how many times the directory was rewritten
    changed,      \* a change event the watcher has not handled yet
    wpc,          \* the watcher's position
    wlocal,       \* the watcher's freshly loaded snapshot
    diagnostics,  \* how many reloads the watcher discarded, each with a diagnostic
    pc,           \* each thread's position inside Options::get
    ret,          \* what the last Options::get to return returned, and to whom
    initialized,  \* GLOBAL_OPTIONS is set
    overrides,    \* OVERRIDES, one map per thread
    guards,       \* the OverrideGuards created so far
    ops,          \* how many writes to the override stores were asked for
    nested,       \* per thread: its guards were nested and dropped last-first,
                  \* each on its creator, with no set or clear under a guard
    last,         \* the last operation of the testing module, and its thread
    call,         \* the feature evaluation under way: what is called, on what
    ctx,          \* the FeatureContext handed to that call
    fres,         \* what the call returned, once it has
    builds,       \* how many calls of init() have begun
    installed,    \* the store GLOBAL_OPTIONS holds: who built it, as which call
    life,         \* the store is alive, being dropped, or dropped
    watchers      \* the stores init() built whose watcher thread is running

vars == <<registry, values, writing, readers, disk, diskWrites, changed, wpc,
          wlocal, diagnostics, pc, ret, initialized, overrides, guards, ops, nested, last,
          call, ctx, fres, builds, installed, life, watchers>>

storeVars == <<values, writing, readers, disk, diskWrites, changed, wpc, wlocal,
               diagnostics>>
featureVars == <<call, ctx, fres>>

processVars == <<builds, installed, life, watchers>>

(***************************************************************************)
(* Validation of one value against its option schema.                      *)
(***************************************************************************)
OptionTypes == {"str", "int", "float", "bool"}

\* OptionType::is_valid
IsValid(ty, value) ==
    CASE ty = "str" -> value[1] = "string"
      [] ty = "int" -> value[1] = "i64"
      [] ty = "float" -> value[1] = "f64"
      [] ty = "bool" -> value[1] = "bool"

\* OptionSchema::validate
OptionValidate(schema, value) ==
    IF schema.option_type \notin OptionTypes THEN "ValueError"
    ELSE IF ~IsValid(schema.option_type, value) THEN "TypeMismatch"
    ELSE "Ok"

\* SchemaRegistry::validate_value
ValidateValue(reg, namespace, key, value) ==
    IF namespace \notin DOMAIN reg THEN "UnknownNamespace"
    ELSE IF key \notin DOMAIN reg[namespace] THEN "ValueError"
    ELSE OptionValidate(reg[namespace][key], value)

\* SchemaRegistry::get_schema; an Option is the set of what it holds
GetSchema(reg, namespace) ==
    IF namespace \in DOMAIN reg THEN {reg[namespace]} ELSE {}

\* NamespaceSchema::get_default
GetDefault(schema, key) ==
    IF key \in DOMAIN schema THEN schema[key].default ELSE NoValue

(***************************************************************************)
(* The load of the values directory: every registered namespace that has a *)
(* values file is validated as a whole; one bad entry rejects the load.    *)
(***************************************************************************)
ValidateValues(reg, namespace, obj) ==
    \A k \in DOMAIN obj : ValidateValue(reg, namespace, k, obj[k]) = "Ok"

LoadValuesJson(reg, dir) ==
    LET present == DOMAIN reg \cap DOMAIN dir
    IN  [ok |-> \A n \in present : ValidateValues(reg, n, dir[n]),
         values |-> [n \in present |-> dir[n]]]

\* what the values directory may hold: a values file for n1 or none
DiskContents == PartialMaps({"n1"}, PartialMaps(Keys, DiskValues))

(***************************************************************************)
(* testing.rs: the thread-local override store.                            *)
(***************************************************************************)
\* a faulty OVERRIDES: one map shared by all threads (a static, not a
\* thread_local)
SharedOverrides(t) == "t1"

\* thread_local! OVERRIDES: the map a thread's accesses reach
OverridesOf(t) == t

\* get_override
GetOverride(t, namespace, key) ==
    LET o == overrides[OverridesOf(t)]
    IN  IF namespace \in DOMAIN o /\ key \in DOMAIN o[namespace]
        THEN o[namespace][key]
        ELSE NoValue

(***************************************************************************)
(* Options::get                                                            *)
(***************************************************************************)
Idle == [st |-> "idle", ns |-> "", key |-> ""]
Reading(namespace, key) == [st |-> "reading", ns |-> namespace, key |-> key]
Ok(v) == [kind |-> "Ok", val |-> v]
Err(e) == [kind |-> e, val |-> NoValue]
NoCall == [t |-> "", ns |-> "", key |-> "", kind |-> "", val |-> NoValue]
Returned(t, namespace, key, r) ==
    [t |-> t, ns |-> namespace, key |-> key, kind |-> r.kind, val |-> r.val]

\* a faulty Options::get: the schema default is never consulted
GetLockedNoDefault(reg, vals, namespace, key) ==
    IF namespace \in DOMAIN vals /\ key \in DOMAIN vals[namespace]
    THEN Ok(vals[namespace][key])
    ELSE Err("UnknownOption")

\* a faulty Options::get: a key without default is answered with a null value
GetLockedNullDefault(reg, vals, namespace, key) ==
    IF namespace \in DOMAIN vals /\ key \in DOMAIN vals[namespace]
    THEN Ok(vals[namespace][key])
    ELSE LET schema == CHOOSE sc \in GetSchema(reg, namespace) : TRUE
             default == GetDefault(schema, key)
         IN  IF default = NoValue THEN Ok(<<"null", 0>>) ELSE Ok(default)

\* the body of Options::get once the read lock is held
GetLocked(reg, vals, namespace, key) ==
    IF namespace \in DOMAIN vals /\ key \in DOMAIN vals[namespace]
    THEN Ok(vals[namespace][key])
    ELSE LET schema == CHOOSE sc \in GetSchema(reg, namespace) : TRUE
             default == GetDefault(schema, key)
         IN  IF default = NoValue THEN Err("UnknownOption") ELSE Ok(default)

\* a faulty read: the map is read without regard to the write lock
CanReadAlways == TRUE

\* self.values.read(): granted while no writer holds the lock
CanRead == ~writing

\* a read of the map while it is being overwritten is a data race: any value
TornResults ==
    {Ok(v) : v \in JsonValues} \cup {Err("UnknownOption")}

\* Options::get up to the acquisition of the read lock
GetCall(t, namespace, key) ==
    /\ pc[t] = Idle
    /\ IF GetSchema(registry, namespace) = {}
       THEN /\ ret' = Returned(t, namespace, key, Err("UnknownNamespace"))
            /\ UNCHANGED <<pc, readers>>
       ELSE /\ CanRead
            /\ readers' = readers \cup {t}
            /\ pc' = [pc EXCEPT ![t] = Reading(namespace, key)]
            /\ UNCHANGED ret
    /\ UNCHANGED <<registry, values, writing, disk, diskWrites, changed, wpc,
                   wlocal, diagnostics, initialized, overrides, guards,
                   ops, nested, last>>
    /\ UNCHANGED featureVars
    /\ UNCHANGED processVars

\* Options::get from the lookup under the read lock to its return
GetReturn(t) ==
    /\ pc[t].st = "reading"
    /\ \E r \in IF writing THEN TornResults
                ELSE {GetLocked(registry, values, pc[t].ns, pc[t].key)} :
          ret' = Returned(t, pc[t].ns, pc[t].key, r)
    /\ readers' = readers \ {t}
    /\ pc' = [pc EXCEPT ![t] = Idle]
    /\ UNCHANGED <<registry, values, writing, disk, diskWrites, changed, wpc,
                   wlocal, diagnostics, initialized, overrides, guards,
                   ops, nested, last>>
    /\ UNCHANGED featureVars
    /\ UNCHANGED processVars

\* a thread inside Options::isset, holding the read lock
Checking(namespace, key) == [st |-> "isset", ns |-> namespace, key |-> key]

\* the bool Options::isset returns
IssetOk(b) == Ok(JBool(IF b THEN 1 ELSE 0))

\* a faulty Options::isset: a declared key with a default counts as set
IssetLockedDefault(reg, vals, namespace, key) ==
    IssetOk(\/ namespace \in DOMAIN vals /\ key \in DOMAIN vals[namespace]
            \/ GetDefault(reg[namespace], key) # NoValue)

\* the body of Options::isset once the read lock is held
IssetLocked(reg, vals, namespace, key) ==
    IF namespace \in DOMAIN vals
    THEN IssetOk(key \in DOMAIN vals[namespace])
    ELSE IssetOk(FALSE)

\* Options::isset up to the acquisition of the read lock
IssetCall(t, namespace, key) ==
    /\ pc[t] = Idle
    /\ IF GetSchema(registry, namespace) = {}
       THEN /\ ret' = Returned(t, namespace, key, Err("UnknownNamespace"))
            /\ UNCHANGED <<pc, readers>>
       ELSE LET schema == CHOOSE sc \in GetSchema(registry, namespace) : TRUE
            IN  IF key \notin DOMAIN schema
                THEN /\ ret' = Returned(t, namespace, key, Err("UnknownOption"))
                     /\ UNCHANGED <<pc, readers>>
                ELSE /\ CanRead
                     /\ readers' = readers \cup {t}
                     /\ pc' = [pc EXCEPT ![t] = Checking(namespace, key)]
                     /\ UNCHANGED ret
    /\ UNCHANGED <<registry, values, writing, disk, diskWrites, changed, wpc,
                   wlocal, diagnostics, initialized, overrides, guards,
                   ops, nested, last>>
    /\ UNCHANGED featureVars
    /\ UNCHANGED processVars

\* Options::isset from the lookup under the read lock to its return
IssetReturn(t) ==
    /\ pc[t].st = "isset"
    /\ \E r \in IF writing THEN {IssetOk(TRUE), IssetOk(FALSE)}
                ELSE {IssetLocked(registry, values, pc[t].ns, pc[t].key)} :
          ret' = Returned(t, pc[t].ns, pc[t].key, r)
    /\ readers' = readers \ {t}
    /\ pc' = [pc EXCEPT ![t] = Idle]
    /\ UNCHANGED <<registry, values, writing, disk, diskWrites, changed, wpc,
                   wlocal, diagnostics, initialized, overrides, guards,
                   ops, nested, last>>
    /\ UNCHANGED featureVars
    /\ UNCHANGED processVars

(***************************************************************************)
(* The values directory and the watcher's reload.                          *)
(***************************************************************************)
\* the deployment rewrites the values directory
DiskWrite(content) ==
    /\ diskWrites < MaxDiskWrites
    /\ content # disk
    /\ disk' = content
    /\ diskWrites' = diskWrites + 1
    /\ changed' = TRUE
    /\ UNCHANGED <<registry, values, writing, readers, wpc, wlocal,
                   diagnostics, pc, ret, initialized, overrides, guards, ops,
                   nested, last>>
    /\ UNCHANGED featureVars
    /\ UNCHANGED processVars

\* a faulty watcher: no load is good enough to be swapped in
ReloadAcceptsNothing(loaded) == FALSE

\* a faulty reload: the load is swapped in whether or not it validated
ReloadAcceptsAnything(loaded) == TRUE

\* what a reload keeps of a load: the new snapshot, or nothing when the load
\* failed validation
ReloadAccepts(loaded) == loaded.ok

\* the watcher handles a change event: it loads and validates the directory
\* into a local value, holding no lock
WatcherLoad ==
    /\ wpc = "idle"
    /\ changed
    /\ changed' = FALSE
    /\ LET loaded == LoadValuesJson(registry, disk)
       IN  IF ReloadAccepts(loaded)
           THEN /\ wlocal' = loaded.values
                /\ wpc' = "loaded"
                /\ UNCHANGED diagnostics
           ELSE /\ diagnostics' = diagnostics + 1
                /\ UNCHANGED <<wlocal, wpc>>
    /\ UNCHANGED <<registry, values, writing, readers, disk, diskWrites,
                   pc, ret, initialized, overrides, guards, ops, nested, last>>
    /\ UNCHANGED featureVars
    /\ UNCHANGED processVars

\* values.write(): granted while nobody holds the lock
CanWrite == ~writing /\ readers = {}

\* the watcher takes the write lock
WatcherLock ==
    /\ wpc = "loaded"
    /\ CanWrite
    /\ writing' = TRUE
    /\ wpc' = "locked"
    /\ UNCHANGED <<registry, values, readers, disk, diskWrites, changed, wlocal,
                   diagnostics, pc, ret, initialized, overrides, guards, ops,
                   nested, last>>
    /\ UNCHANGED featureVars
    /\ UNCHANGED processVars

\* the watcher replaces the whole map and releases the lock
WatcherSwap ==
    /\ wpc = "locked"
    /\ values' = wlocal
    /\ writing' = FALSE
    /\ wpc' = "idle"
    /\ UNCHANGED <<registry, readers, disk, diskWrites, changed, wlocal,
                   diagnostics, pc, ret, initialized, overrides, guards, ops,
                   nested, last>>
    /\ UNCHANGED featureVars
    /\ UNCHANGED processVars

(***************************************************************************)
(* testing.rs: set_override and clear_override.                            *)
(***************************************************************************)
EmptyMap == [k \in {} |-> NoValue]

\* map.entry(ns).or_default().insert(key, value)
MapInsert(o, namespace, key, value) ==
    LET m == IF namespace \in DOMAIN o THEN o[namespace] ELSE EmptyMap
    IN  [n \in DOMAIN o \cup {namespace} |->
            IF n = namespace
            THEN [k \in DOMAIN m \cup {key} |-> IF k = key THEN value ELSE m[k]]
            ELSE o[n]]

\* if let Some(ns_map) = map.get_mut(ns) { ns_map.remove(key) }
MapRemove(o, namespace, key) ==
    IF namespace \in DOMAIN o
    THEN [o EXCEPT ![namespace] =
            [k \in DOMAIN o[namespace] \ {key} |-> o[namespace][k]]]
    ELSE o

\* the record of the last call into the testing module: the
\* thread, whether it succeeded, the index of the entry that failed validation
\* (0 if none) and, for a drop, the batch of the guard dropped
Op(name, t, ok, at, batch) ==
    [op |-> name, t |-> t, ok |-> ok, at |-> at, batch |-> batch]

\* the guards of thread t that are live
LiveGuards(t) == {g \in DOMAIN guards : guards[g].live /\ guards[g].creator = t}

\* set_override
SetOverride(t, namespace, key, value) ==
    /\ pc[t] = Idle
    /\ ops < MaxOps
    /\ ops' = ops + 1
    /\ overrides' = [overrides EXCEPT ![OverridesOf(t)] =
                        MapInsert(@, namespace, key, value)]
    /\ last' = Op("set_override", t, TRUE, 0, <<>>)
    /\ nested' = [nested EXCEPT ![t] = @ /\ LiveGuards(t) = {}]
    /\ UNCHANGED <<registry, initialized, guards, pc, ret>>
    /\ UNCHANGED storeVars
    /\ UNCHANGED featureVars
    /\ UNCHANGED processVars

\* clear_override
ClearOverride(t, namespace, key) ==
    /\ pc[t] = Idle
    /\ ops < MaxOps
    /\ ops' = ops + 1
    /\ overrides' = [overrides EXCEPT ![OverridesOf(t)] =
                        MapRemove(@, namespace, key)]
    /\ last' = Op("clear_override", t, TRUE, 0, <<>>)
    /\ nested' = [nested EXCEPT ![t] = @ /\ LiveGuards(t) = {}]
    /\ UNCHANGED <<registry, initialized, guards, pc, ret>>
    /\ UNCHANGED storeVars
    /\ UNCHANGED featureVars
    /\ UNCHANGED processVars

(***************************************************************************)
(* init(): GLOBAL_OPTIONS.set installs the store once.                     *)
(***************************************************************************)
InitCall(t) ==
    /\ pc[t] = Idle
    /\ initialized' = TRUE
    /\ UNCHANGED <<registry, overrides, guards, ops, nested, last, pc, ret>>
    /\ UNCHANGED storeVars
    /\ UNCHANGED featureVars
    /\ UNCHANGED processVars

\* how many calls of init() are followed
MaxInits == 3

\* GLOBAL_OPTIONS before any set, and holding the store a call built
NotInstalled == <<"", 0>>
Installed(t, n) == <<t, n>>

\* a thread inside init(), between Options::new() and GLOBAL_OPTIONS.set
Built == [st |-> "init", ns |-> "", key |-> ""]

\* the () of Result<()>
Unit == NoValue

\* the store a thread inside init() has built and not yet handed over
Own(t) == CHOOSE w \in watchers : w[1] = t /\ w # installed

\* a faulty drop of a store: its watcher thread is left running
DiscardDetached(ws, w) == ws

\* the drop of an Options that was not installed: its ValuesWatcher is
\* dropped with it, and the watcher thread has ended when the drop returns
Discard(ws, w) == ws \ {w}

\* init() up to the return of Options::new(): the directory is loaded into
\* a store of the call's own and the store's watcher thread is started; a
\* directory that does not load ends the call with the load's error, before
\* any watcher is created
InitBuild(t) ==
    /\ pc[t] = Idle
    /\ builds < MaxInits
    /\ builds' = builds + 1
    /\ IF LoadValuesJson(registry, disk).ok
       THEN /\ pc' = [pc EXCEPT ![t] = Built]
            /\ watchers' = watchers \cup {Installed(t, builds + 1)}
            /\ UNCHANGED ret
       ELSE /\ ret' = Returned(t, "", "", Err("Schema"))
            /\ UNCHANGED <<pc, watchers>>
    /\ UNCHANGED <<registry, initialized, installed, life, overrides, guards,
                   ops, nested, last>>
    /\ UNCHANGED storeVars
    /\ UNCHANGED featureVars

\* init() from GLOBAL_OPTIONS.set(opts) to its return: OnceLock::set stores
\* the value if the cell is empty and hands it back otherwise; map_err's
\* closure drops the store handed back
InitSet(t) ==
    /\ pc[t] = Built
    /\ pc' = [pc EXCEPT ![t] = Idle]
    /\ IF ~initialized
       THEN /\ initialized' = TRUE
            /\ installed' = Own(t)
            /\ ret' = Returned(t, "", "", Ok(Unit))
            /\ UNCHANGED watchers
       ELSE /\ ret' = Returned(t, "", "", Err("AlreadyInitialized"))
            /\ watchers' = Discard(watchers, Own(t))
            /\ UNCHANGED <<initialized, installed>>
    /\ UNCHANGED <<registry, builds, life, overrides, guards, ops, nested, last>>
    /\ UNCHANGED storeVars
    /\ UNCHANGED featureVars

(***************************************************************************)
(* testing.rs: override_options and the guard it returns.                  *)
(***************************************************************************)
\* a faulty validate_override: every validation error, that of an
\* unregistered namespace too, is returned as a Schema error
ValidateOverrideSchemaOnly(reg, namespace, key, value) ==
    IF ValidateValue(reg, namespace, key, value) # "Ok" THEN "Schema" ELSE "Ok"

\* Options::validate_override: the namespace must be registered and the value
\* must pass SchemaRegistry::validate_value
ValidateOverride(reg, namespace, key, value) ==
    IF GetSchema(reg, namespace) = {} THEN "UnknownNamespace"
    ELSE IF ValidateValue(reg, namespace, key, value) # "Ok" THEN "Schema"
    ELSE "Ok"

\* the validation loop of override_options: the index of the first entry that
\* fails and its error, or index 0
ValidateAll(reg, batch) ==
    LET bad == {i \in 1..Len(batch) :
                   ValidateOverride(reg, batch[i][1], batch[i][2], batch[i][3])
                      # "Ok"}
    IN  IF bad = {} THEN [at |-> 0, err |-> "Ok"]
        ELSE LET i == CHOOSE j \in bad : \A m \in bad : j <= m
             IN  [at |-> i,
                  err |-> ValidateOverride(reg, batch[i][1], batch[i][2],
                                           batch[i][3])]

\* map.get(ns).and_then(|m| m.get(key).cloned())
MapGet(o, namespace, key) ==
    IF namespace \in DOMAIN o /\ key \in DOMAIN o[namespace]
    THEN o[namespace][key]
    ELSE NoValue

\* what the apply loop pushes on `previous` for one entry
Previous(o, entry) == <<entry[1], entry[2], MapGet(o, entry[1], entry[2])>>

\* the apply loop of override_options: entry by entry, the prior value is
\* pushed on `previous` and the new one inserted
RECURSIVE ApplyBatch(_, _, _)
ApplyBatch(o, batch, previous) ==
    IF batch = <<>> THEN [map |-> o, previous |-> previous]
    ELSE LET e == Head(batch)
         IN  ApplyBatch(MapInsert(o, e[1], e[2], e[3]), Tail(batch),
                        Append(previous, Previous(o, e)))

\* a faulty turn of the drop loop: a key that had no prior value is left set
RestoreOneKeeps(o, p) ==
    IF p[3] # NoValue THEN MapInsert(o, p[1], p[2], p[3]) ELSE o

\* one turn of the loop of OverrideGuard::drop
RestoreOne(o, p) ==
    IF p[3] # NoValue THEN MapInsert(o, p[1], p[2], p[3])
    ELSE MapRemove(o, p[1], p[2])

\* the loop of OverrideGuard::drop over self.previous.drain(..): first to last
RECURSIVE Restore(_, _)
Restore(o, previous) ==
    IF previous = <<>> THEN o
    ELSE Restore(RestoreOne(o, Head(previous)), Tail(previous))

EmptyStore == [n \in {} |-> EmptyMap]

\* a guard: its `previous`, and for the record its creator, its batch and the
\* creator's store when override_options was called
Guard(t, batch, previous, pre) ==
    [creator |-> t, live |-> TRUE, previous |-> previous,
     batch |-> batch, pre |-> pre]

\* a guard after its drop: `previous` is drained
Dropped(guard, t) ==
    [creator |-> "", live |-> FALSE,
     previous |-> <<>>, batch |-> <<>>, pre |-> EmptyStore]

\* no (namespace, key) is named twice in the batch
DistinctPairs(batch) ==
    \A i, j \in 1..Len(batch) :
        (batch[i][1] = batch[j][1] /\ batch[i][2] = batch[j][2]) => i = j

\* a faulty override_options: the batch is validated whether or not the
\* global store is initialised
VerdictAlways(init, reg, batch) == ValidateAll(reg, batch)

\* if let Some(opts) = GLOBAL_OPTIONS.get() { the validation loop }
Verdict(init, reg, batch) ==
    IF init THEN ValidateAll(reg, batch) ELSE [at |-> 0, err |-> "Ok"]

\* a faulty override_options: each entry is applied as soon as it validates,
\* so the entries before an invalid one stay applied when the call fails
OverrideOptionsEager(t, batch) ==
    /\ pc[t] = Idle
    /\ ops + Len(batch) <= MaxOps
    /\ LET verdict == Verdict(initialized, registry, batch)
           upto == IF verdict.err # "Ok" THEN verdict.at - 1 ELSE Len(batch)
           applied == ApplyBatch(overrides[OverridesOf(t)],
                                 SubSeq(batch, 1, upto), <<>>)
       IN  /\ overrides' = [overrides EXCEPT ![OverridesOf(t)] = applied.map]
           /\ IF verdict.err # "Ok"
              THEN /\ last' = Op("override_options", t, FALSE, verdict.at, <<>>)
                   /\ UNCHANGED <<guards, nested, ops>>
              ELSE /\ ops' = ops + Len(batch)
                   /\ guards' = Append(guards,
                                   Guard(t, batch, applied.previous,
                                         overrides[OverridesOf(t)]))
                   /\ nested' = nested
                   /\ last' = Op("override_options", t, TRUE, 0, <<>>)
    /\ UNCHANGED <<registry, initialized, pc, ret>>
    /\ UNCHANGED storeVars
    /\ UNCHANGED featureVars
    /\ UNCHANGED processVars

\* override_options: what it does to the override store and the guards
OverrideOptionsStep(t, batch) ==
    /\ pc[t] = Idle
    /\ ops + Len(batch) <= MaxOps
    /\ LET verdict == Verdict(initialized, registry, batch)
           applied == ApplyBatch(overrides[OverridesOf(t)], batch, <<>>)
       IN  IF verdict.err # "Ok"
           THEN /\ last' = Op("override_options", t, FALSE, verdict.at, <<>>)
                /\ UNCHANGED <<overrides, guards, nested, ops>>
           ELSE /\ ops' = ops + Len(batch)
                /\ overrides' = [overrides EXCEPT ![OverridesOf(t)] = applied.map]
                /\ guards' = Append(guards,
                                Guard(t, batch, applied.previous,
                                      overrides[OverridesOf(t)]))
                /\ nested' = nested
                /\ last' = Op("override_options", t, TRUE, 0, <<>>)
    /\ UNCHANGED <<registry, initialized, pc, ret>>
    /\ UNCHANGED storeVars
    /\ UNCHANGED processVars

\* override_options
OverrideOptions(t, batch) ==
    /\ OverrideOptionsStep(t, batch)
    /\ UNCHANGED featureVars

\* OverrideGuard::drop, run by thread t (the guard's creator, or the thread
\* the guard was moved to)
DropGuard(g, t) ==
    /\ pc[t] = Idle
    /\ g \in DOMAIN guards
    /\ guards[g].live
    /\ overrides' = [overrides EXCEPT ![OverridesOf(t)] =
                        Restore(@, guards[g].previous)]
    /\ guards' = [guards EXCEPT ![g] = Dropped(@, t)]
    /\ nested' = [u \in Threads |->
                    /\ nested[u]
                    /\ u \in {t, guards[g].creator} =>
                          /\ t = guards[g].creator
                          /\ \A h \in LiveGuards(t) : h <= g]
    /\ last' = Op("drop", t, t = guards[g].creator, 0, guards[g].batch)
    /\ UNCHANGED <<registry, initialized, ops, pc, ret>>
    /\ UNCHANGED storeVars
    /\ UNCHANGED featureVars
    /\ UNCHANGED processVars

\* the entries a test hands to override_options
\* (against RegistryB: a valid int, a bool for the int option, a valid bool,
\* and a namespace that is not registered)
Entries ==
    {<<"n1", "k1", JInt(2)>>, <<"n1", "k1", JBool(1)>>,
     <<"n1", "k2", JBool(1)>>, <<"n2", "k1", JInt(2)>>}
Pairs == {<<e[1], e[2]>> : e \in Entries}
Batches == UNION {[1..n -> Entries] : n \in 1..MaxOps}

(***************************************************************************)
(* features.rs: ContextValue and FeatureContext.                           *)
(***************************************************************************)
\* ContextValue, as <<variant, payload>>; a bool is 0 or 1, a float n is n.0
CvString(v) == <<"String", v>>
CvInt(v) == <<"Int", v>>
CvFloat(v) == <<"Float", v>>
CvBool(v) == <<"Bool", v>>
CvStringList(v) == <<"StringList", v>>
CvIntList(v) == <<"IntList", v>>
CvFloatList(v) == <<"FloatList", v>>
CvBoolList(v) == <<"BoolList", v>>

\* the JSON values of a feature config besides JInt and JBool
JStr(v) == <<"string", v>>
JFloat(v) == <<"f64", v>>
JArray(v) == <<"array", v>>
JNull == <<"null", 0>>

\* str::to_lowercase, on the letters of the model; "U+0131" is the string of
\* the one letter U+0131, the dotless small i, which is its own lower case
\* and whose upper case is the ASCII letter I
ToLowercase(v) ==
    CASE v = "A" -> "a"
      [] v = "B" -> "b"
      [] v = "I" -> "i"
      [] OTHER -> v

\* impl Display for ContextValue
Display(v) ==
    CASE v = CvString("a") -> "a"
      [] v = CvString("A") -> "A"
      [] v = CvString("b") -> "b"
      [] v = CvInt(1) -> "1"
      [] v = CvFloat(1) -> "1"
      [] v = CvBool(1) -> "True"
      [] v = CvBool(0) -> "False"
      [] v = CvStringList(<<"a">>) -> "[\"a\"]"
      [] v = CvIntList(<<1>>) -> "[1]"

\* the sentinel of FeatureContext.cached_id
ID_NOT_COMPUTED == 255

\* the names a context's fields may have, in lexicographic order
PropertyOrder == <<"p", "q">>
Properties == {PropertyOrder[i] : i \in DOMAIN PropertyOrder}

\* FeatureContext
FeatureContext(data, identity_fields, cached_id) ==
    [data |-> data, identity_fields |-> identity_fields,
     cached_id |-> cached_id]

\* FeatureContext::new
NewContext == FeatureContext([k \in {} |-> NoValue], <<>>, ID_NOT_COMPUTED)

\* FeatureContext::get; None is NoValue
ContextGet(c, key) == IF key \in DOMAIN c.data THEN c.data[key] ELSE NoValue

\* Sha1::new, update(id_string.as_bytes()), finalize: the 20 bytes of the
\* SHA-1 digest, for the id strings the contexts of the model produce
Sha1(s) ==
    CASE s = "" ->
           <<218, 57, 163, 238, 94, 107, 75, 13, 50, 85, 191, 239, 149, 96, 24, 144, 175, 216, 7, 9>>
      [] s = "a" ->
           <<134, 247, 228, 55, 250, 165, 167, 252, 225, 93, 29, 220, 185, 234, 234, 234, 55, 118, 103, 184>>
      [] s = "A" ->
           <<109, 205, 76, 226, 61, 136, 226, 238, 149, 104, 186, 84, 108, 0, 124, 99, 217, 19, 28, 27>>
      [] s = "b" ->
           <<233, 215, 31, 94, 231, 201, 45, 109, 201, 233, 47, 253, 173, 23, 184, 189, 73, 65, 143, 152>>
      [] s = "1" ->
           <<53, 106, 25, 43, 121, 19, 176, 76, 84, 87, 77, 24, 194, 141, 70, 230, 57, 84, 40, 171>>
      [] s = "True" ->
           <<136, 179, 62, 78, 18, 247, 90, 200, 191, 121, 42, 235, 222, 65, 241, 160, 144, 243, 166, 18>>
      [] s = "False" ->
           <<151, 205, 189, 199, 254, 255, 130, 126, 251, 8, 42, 107, 109, 210, 114, 114, 55, 205, 73, 253>>
      [] s = "[\"a\"]" ->
           <<107, 56, 212, 32, 54, 218, 205, 207, 8, 27, 141, 29, 14, 224, 201, 123, 64, 124, 86, 198>>
      [] s = "[1]" ->
           <<246, 41, 174, 68, 183, 179, 220, 254, 212, 68, 211, 99, 230, 38, 237, 244, 17, 236, 105, 168>>
      [] s = "a:a" ->
           <<152, 57, 143, 81, 170, 120, 170, 246, 48, 155, 227, 217, 58, 210, 127, 177, 193, 178, 28, 182>>
      [] s = "a:A" ->
           <<201, 229, 253, 46, 175, 180, 70, 30, 105, 113, 31, 79, 43, 222, 211, 53, 42, 181, 157, 177>>
      [] s = "a:b" ->
           <<220, 234, 109, 156, 205, 61, 32, 186, 21, 73, 246, 217, 181, 221, 230, 7, 66, 21, 136, 130>>
      [] s = "a:1" ->
           <<222, 137, 191, 175, 6, 36, 80, 145, 167, 135, 50, 144, 167, 147, 96, 70, 18, 48, 34, 71>>
      [] s = "a:True" ->
           <<123, 79, 24, 242, 209, 65, 54, 26, 115, 185, 36, 182, 209, 25, 64, 92, 62, 141, 133, 92>>
      [] s = "a:False" ->
           <<227, 48, 141, 32, 57, 143, 145, 53, 167, 69, 247, 236, 147, 237, 26, 83, 93, 223, 51, 107>>
      [] s = "a:[\"a\"]" ->
           <<199, 2, 170, 172, 191, 72, 255, 48, 89, 6, 10, 73, 87, 63, 128, 188, 220, 32, 242, 43>>
      [] s = "a:[1]" ->
           <<173, 193, 49, 217, 156, 247, 219, 113, 150, 49, 12, 225, 137, 77, 85, 47, 65, 122, 239, 134>>
      [] s = "A:a" ->
           <<94, 228, 175, 169, 231, 203, 74, 36, 222, 4, 214, 249, 218, 53, 45, 253, 168, 101, 67, 92>>
      [] s = "A:A" ->
           <<243, 248, 205, 114, 109, 200, 5, 3, 184, 2, 24, 121, 62, 160, 181, 242, 171, 150, 38, 18>>
      [] s = "A:b" ->
           <<28, 193, 64, 116, 117, 241, 204, 194, 112, 83, 41, 111, 193, 181, 36, 230, 52, 136, 115, 80>>
      [] s = "A:1" ->
           <<60, 120, 45, 133, 161, 13, 43, 6, 0, 151, 157, 232, 70, 57, 10, 174, 43, 91, 80, 186>>
      [] s = "A:True" ->
           <<99, 114, 240, 45, 37, 210, 106, 159, 167, 28, 75, 19, 13, 67, 210, 96, 120, 83, 75, 179>>
      [] s = "A:False" ->
           <<185, 13, 17, 32, 202, 7, 52, 145, 48, 228, 143, 34, 168, 92, 161, 86, 150, 217, 78, 80>>
      [] s = "A:[\"a\"]" ->
           <<158, 103, 233, 41, 19, 246, 22, 248, 119, 186, 132, 38, 55, 21, 239, 243, 41, 102, 111, 5>>
      [] s = "A:[1]" ->
           <<69, 238, 86, 73, 246, 51, 74, 51, 21, 206, 229, 18, 190, 200, 252, 105, 46, 0, 156, 9>>
      [] s = "b:a" ->
           <<169, 24, 18, 182, 75, 212, 66, 32, 249, 139, 232, 81, 11, 239, 12, 208, 48, 172, 140, 249>>
      [] s = "b:A" ->
           <<223, 255, 129, 221, 141, 74, 112, 139, 122, 232, 81, 1, 246, 178, 25, 21, 128, 68, 125, 76>>
      [] s = "b:b" ->
           <<248, 95, 51, 62, 125, 241, 212, 34, 241, 222, 170, 88, 28, 70, 145, 192, 136, 94, 89, 199>>
      [] s = "b:1" ->
           <<169, 101, 144, 202, 101, 46, 252, 144, 84, 127, 144, 67, 139, 212, 238, 102, 120, 214, 189, 63>>
      [] s = "b:True" ->
           <<252, 18, 97, 166, 219, 215, 58, 164, 193, 253, 206, 151, 0, 196, 253, 120, 135, 0, 97, 162>>
      [] s = "b:False" ->
           <<169, 110, 60, 229, 104, 244, 74, 80, 118, 143, 49, 154, 96, 2, 182, 135, 173, 214, 177, 72>>
      [] s = "b:[\"a\"]" ->
           <<95, 85, 255, 150, 186, 62, 122, 133, 90, 140, 137, 164, 124, 193, 234, 181, 68, 252, 79, 47>>
      [] s = "b:[1]" ->
           <<228, 67, 150, 198, 218, 26, 146, 19, 90, 57, 176, 141, 170, 231, 225, 29, 246, 199, 114, 227>>
      [] s = "1:a" ->
           <<173, 251, 161, 14, 116, 223, 163, 96, 11, 222, 250, 239, 21, 52, 159, 152, 4, 198, 190, 65>>
      [] s = "1:A" ->
           <<22, 152, 160, 188, 250, 166, 133, 96, 103, 239, 190, 83, 197, 67, 41, 48, 152, 26, 2, 179>>
      [] s = "1:b" ->
           <<96, 211, 144, 2, 158, 223, 195, 247, 106, 88, 253, 115, 250, 187, 130, 158, 34, 21, 230, 33>>
      [] s = "1:1" ->
           <<62, 119, 71, 49, 211, 61, 146, 36, 172, 54, 175, 61, 133, 186, 31, 129, 179, 27, 200, 77>>
      [] s = "1:True" ->
           <<182, 68, 220, 195, 31, 109, 69, 181, 12, 139, 68, 223, 214, 39, 68, 113, 72, 135, 178, 32>>
      [] s = "1:False" ->
           <<226, 27, 85, 7, 156, 152, 49, 245, 243, 217, 181, 98, 150, 250, 25, 138, 82, 69, 153, 186>>
      [] s = "1:[\"a\"]" ->
           <<233, 181, 112, 250, 231, 29, 254, 171, 192, 175, 62, 229, 14, 71, 126, 179, 103, 82, 147, 88>>
      [] s = "1:[1]" ->
           <<19, 14, 123, 245, 242, 167, 26, 5, 69, 97, 153, 64, 36, 212, 238, 251, 180, 46, 195, 163>>
      [] s = "True:a" ->
           <<41, 10, 18, 42, 120, 73, 34, 171, 85, 38, 3, 191, 229, 51, 96, 96, 151, 200, 183, 209>>
      [] s = "True:A" ->
           <<205, 174, 129, 66, 83, 194, 120, 216, 248, 198, 116, 24, 232, 14, 144, 66, 227, 143, 47, 29>>
      [] s = "True:b" ->
           <<102, 67, 127, 205, 25, 77, 93, 115, 82, 119, 240, 139, 205, 30, 211, 11, 238, 241, 212, 60>>
      [] s = "True:1" ->
           <<228, 48, 217, 158, 16, 8, 4, 207, 2, 110, 180, 27, 83, 110, 49, 177, 18, 17, 228, 204>>
      [] s = "True:True" ->
           <<23, 110, 222, 203, 228, 42, 99, 99, 80, 88, 100, 66, 191, 110, 229, 84, 38, 168, 181, 166>>
      [] s = "True:False" ->
           <<201, 21, 115, 120, 49, 231, 99, 160, 222, 219, 81, 155, 176, 218, 208, 157, 228, 53, 139, 114>>
      [] s = "True:[\"a\"]" ->
           <<60, 11, 195, 90, 128, 74, 216, 163, 32, 132, 176, 71, 248, 17, 149, 207, 117, 28, 33, 177>>
      [] s = "True:[1]" ->
           <<193, 167, 7, 242, 39, 57, 126, 233, 107, 41, 132, 239, 238, 154, 162, 173, 46, 77, 8, 176>>
      [] s = "False:a" ->
           <<12, 55, 235, 254, 126, 226, 191, 76, 166, 160, 105, 65, 73, 234, 143, 167, 140, 203, 117, 152>>
      [] s = "False:A" ->
           <<155, 242, 122, 219, 44, 182, 62, 172, 80, 131, 55, 149, 82, 178, 54, 94, 21, 215, 124, 9>>
      [] s = "False:b" ->
           <<5, 200, 244, 32, 77, 30, 191, 183, 146, 194, 146, 118, 126, 28, 227, 88, 50, 98, 56, 72>>
      [] s = "False:1" ->
           <<176, 55, 13, 217, 220, 118, 51, 51, 94, 250, 210, 249, 176, 147, 71, 91, 96, 19, 166, 250>>
      [] s = "False:True" ->
           <<178, 105, 213, 59, 88, 157, 22, 237, 195, 112, 169, 126, 213, 2, 178, 75, 152, 223, 11, 205>>
      [] s = "False:False" ->
           <<218, 188, 130, 228, 116, 106, 122, 92, 129, 212, 98, 68, 74, 69, 91, 15, 95, 85, 24, 135>>
      [] s = "False:[\"a\"]" ->
           <<238, 79, 49, 221, 47, 24, 237, 252, 116, 176, 98, 26, 12, 54, 19, 148, 216, 247, 101, 228>>
      [] s = "False:[1]" ->
           <<233, 171, 78, 14, 144, 13, 159, 43, 166, 205, 175, 180, 230, 116, 70, 12, 226, 65, 131, 241>>
      [] s = "[\"a\"]:a" ->
           <<83, 229, 213, 20, 11, 178, 46, 192, 183, 162, 205, 65, 237, 253, 247, 31, 74, 70, 234, 63>>
      [] s = "[\"a\"]:A" ->
           <<185, 116, 221, 10, 182, 80, 95, 149, 255, 9, 40, 242, 30, 175, 224, 126, 62, 221, 202, 6>>
      [] s = "[\"a\"]:b" ->
           <<17, 35, 214, 172, 45, 29, 173, 89, 3, 146, 136, 40, 222, 111, 133, 96, 204, 25, 129, 161>>
      [] s = "[\"a\"]:1" ->
           <<103, 87, 162, 128, 101, 0, 175, 177, 93, 118, 175, 15, 148, 244, 91, 188, 45, 155, 216, 134>>
      [] s = "[\"a\"]:True" ->
           <<136, 209, 103, 143, 11, 213, 107, 148, 165, 55, 242, 21, 57, 99, 79, 113, 146, 36, 143, 147>>
      [] s = "[\"a\"]:False" ->
           <<148, 155, 193, 60, 245, 226, 7, 80, 247, 43, 94, 136, 73, 146, 75, 171, 232, 252, 139, 139>>
      [] s = "[\"a\"]:[\"a\"]" ->
           <<166, 37, 162, 202, 153, 107, 209, 35, 191, 182, 177, 119, 109, 140, 118, 15, 135, 190, 121, 169>>
      [] s = "[\"a\"]:[1]" ->
           <<126, 121, 162, 125, 52, 37, 63, 204, 155, 53, 70, 229, 69, 167, 49, 135, 141, 69, 252, 166>>
      [] s = "[1]:a" ->
           <<10, 189, 196, 152, 124, 95, 126, 204, 135, 122, 243, 175, 195, 53, 82, 144, 155, 252, 81, 109>>
      [] s = "[1]:A" ->
           <<140, 158, 14, 171, 66, 16, 9, 251, 140, 9, 242, 180, 115, 70, 198, 141, 191, 39, 119, 68>>
      [] s = "[1]:b" ->
           <<149, 113, 42, 133, 8, 34, 244, 88, 179, 18, 120, 154, 221, 247, 6, 104, 203, 65, 223, 249>>
      [] s = "[1]:1" ->
           <<237, 110, 118, 108, 254, 252, 74, 91, 66, 13, 175, 156, 212, 16, 191, 134, 234, 235, 168, 217>>
      [] s = "[1]:True" ->
           <<68, 233, 159, 144, 91, 53, 40, 51, 206, 155, 126, 71, 15, 129, 85, 14, 220, 255, 224, 124>>
      [] s = "[1]:False" ->
           <<134, 199, 48, 49, 202, 252, 130, 219, 180, 215, 249, 114, 17, 244, 34, 188, 216, 102, 197, 95>>
      [] s = "[1]:[\"a\"]" ->
           <<177, 36, 1, 95, 236, 218, 131, 182, 50, 239, 144, 42, 148, 136, 128, 58, 125, 95, 101, 93>>
      [] s = "[1]:[1]" ->
           <<35, 122, 87, 87, 179, 61, 138, 187, 215, 104, 46, 20, 91, 90, 81, 67, 129, 86, 132, 224>>
      [] s = "a:a:a" ->
           <<52, 251, 184, 68, 1, 181, 38, 121, 147, 204, 196, 29, 134, 211, 14, 25, 194, 175, 105, 142>>
      [] s = "a:a:b" ->
           <<16, 59, 88, 241, 41, 180, 233, 173, 121, 115, 234, 198, 24, 33, 207, 171, 237, 171, 170, 46>>
      [] s = "a:a:1" ->
           <<35, 139, 155, 168, 56, 185, 182, 61, 90, 136, 177, 48, 69, 12, 12, 186, 1, 59, 185, 71>>
      [] s = "a:b:a" ->
           <<182, 66, 28, 248, 164, 98, 112, 227, 226, 171, 47, 195, 85, 253, 49, 166, 99, 22, 85, 81>>
      [] s = "a:b:b" ->
           <<248, 220, 16, 21, 7, 230, 186, 97, 157, 53, 58, 173, 74, 199, 2, 29, 159, 223, 153, 186>>
      [] s = "a:b:1" ->
           <<180, 206, 230, 141, 244, 199, 120, 61, 31, 145, 116, 194, 197, 103, 23, 27, 224, 115, 42, 172>>
      [] s = "a:1:a" ->
           <<45, 44, 241, 221, 78, 233, 20, 108, 146, 144, 39, 85, 44, 14, 180, 124, 61, 74, 225, 179>>
      [] s = "a:1:b" ->
           <<234, 70, 148, 27, 84, 214, 171, 156, 190, 109, 116, 63, 237, 255, 75, 249, 24, 146, 178, 102>>
      [] s = "a:1:1" ->
           <<189, 43, 196, 198, 212, 43, 96, 0, 50, 57, 66, 54, 154, 106, 189, 197, 163, 145, 251, 177>>
      [] s = "b:a:a" ->
           <<174, 206, 169, 97, 202, 126, 130, 131, 78, 227, 92, 101, 91, 103, 28, 11, 224, 205, 221, 191>>
      [] s = "b:a:b" ->
           <<50, 238, 189, 81, 222, 51, 73, 221, 51, 25, 118, 245, 67, 182, 40, 129, 18, 224, 201, 140>>
      [] s = "b:a:1" ->
           <<35, 0, 64, 220, 119, 207, 1, 174, 138, 43, 33, 160, 56, 244, 211, 178, 114, 124, 87, 145>>
      [] s = "b:b:a" ->
           <<87, 38, 1, 249, 32, 231, 85, 47, 220, 176, 95, 234, 155, 233, 37, 240, 101, 62, 96, 210>>
      [] s = "b:b:b" ->
           <<141, 167, 145, 150, 26, 16, 121, 120, 232, 23, 162, 6, 23, 54, 254, 203, 234, 172, 166, 107>>
      [] s = "b:b:1" ->
           <<113, 194, 2, 119, 112, 21, 52, 115, 169, 216, 183, 110, 212, 219, 28, 209, 165, 237, 110, 211>>
      [] s = "b:1:a" ->
           <<163, 174, 73, 1, 166, 151, 194, 168, 255, 209, 244, 32, 205, 89, 53, 211, 173, 248, 107, 79>>
      [] s = "b:1:b" ->
           <<180, 92, 217, 202, 231, 93, 88, 164, 117, 127, 107, 195, 32, 58, 104, 202, 5, 45, 101, 59>>
      [] s = "b:1:1" ->
           <<96, 177, 199, 21, 219, 37, 188, 96, 140, 160, 18, 91, 79, 221, 209, 203, 255, 219, 179, 133>>
      [] s = "1:a:a" ->
           <<6, 207, 177, 197, 32, 154, 52, 156, 242, 191, 69, 206, 120, 226, 49, 48, 148, 54, 8, 81>>
      [] s = "1:a:b" ->
           <<223, 222, 175, 234, 226, 23, 250, 32, 53, 26, 101, 40, 149, 238, 86, 177, 65, 32, 171, 157>>
      [] s = "1:a:1" ->
           <<173, 48, 28, 214, 108, 2, 90, 233, 139, 151, 205, 255, 54, 234, 55, 95, 95, 79, 153, 242>>
      [] s = "1:b:a" ->
           <<244, 140, 232, 235, 5, 199, 16, 177, 72, 250, 55, 111, 198, 243, 227, 202, 66, 115, 152, 16>>
      [] s = "1:b:b" ->
           <<176, 87, 1, 159, 14, 171, 229, 216, 62, 240, 192, 132, 117, 44, 106, 3, 75, 253, 172, 183>>
      [] s = "1:b:1" ->
           <<71, 238, 157, 3, 16, 59, 33, 165, 104, 78, 35, 172, 254, 189, 51, 56, 113, 199, 204, 204>>
      [] s = "1:1:a" ->
           <<33, 130, 74, 117, 87, 97, 66, 119, 47, 81, 243, 167, 165, 44, 203, 113, 35, 40, 156, 95>>
      [] s = "1:1:b" ->
           <<226, 239, 117, 163, 79, 222, 2, 214, 149, 200, 167, 240, 64, 106, 222, 163, 232, 135, 121, 165>>
      [] s = "1:1:1" ->
           <<40, 96, 160, 62, 6, 213, 61, 29, 135, 115, 31, 61, 193, 157, 49, 92, 239, 8, 84, 170>>

\* a faulty reduction: the accumulator is reduced mod 256, the range of a u8
RECURSIVE ReduceFromWrapping(_, _)
ReduceFromWrapping(acc, bytes) ==
    IF bytes = <<>> THEN acc
    ELSE ReduceFromWrapping((acc * 256 + Head(bytes)) % 256, Tail(bytes))

\* a faulty reduction: the byte is added before the accumulator is shifted
RECURSIVE ReduceFromShiftAfter(_, _)
ReduceFromShiftAfter(acc, bytes) ==
    IF bytes = <<>> THEN acc
    ELSE ReduceFromShiftAfter(((acc + Head(bytes)) * 256) % 100, Tail(bytes))

\* the loop of lines 183-186 from an accumulator on:
\* acc = (acc * 256 + byte) % 100 for each byte
RECURSIVE ReduceFrom(_, _)
ReduceFrom(acc, bytes) ==
    IF bytes = <<>> THEN acc
    ELSE ReduceFrom((acc * 256 + Head(bytes)) % 100, Tail(bytes))

\* a faulty reduction: the digest is read from its last byte to its first
RECURSIVE Reverse(_)
Reverse(bytes) ==
    IF bytes = <<>> THEN <<>> ELSE Reverse(Tail(bytes)) \o <<Head(bytes)>>
ReduceLittleEndian(bytes) == ReduceFrom(0, Reverse(bytes))

\* the iterative mod-100 reduction of a digest (lines 182-187)
Reduce(bytes) == ReduceFrom(0, bytes)

\* the values acc * 256 + byte that the loop computes before it reduces them
RECURSIVE Intermediates(_, _)
Intermediates(acc, bytes) ==
    IF bytes = <<>> THEN {}
    ELSE {acc * 256 + Head(bytes)}
            \cup Intermediates(ReduceFrom(acc, <<Head(bytes)>>), Tail(bytes))

\* the SHA-1 digest of the id string reduced mod 100 (lines 178-187)
Sha1Mod100(s) == Reduce(Sha1(s))

\* parts.join(":")
RECURSIVE Join(_)
Join(parts) ==
    IF parts = <<>> THEN ""
    ELSE IF Len(parts) = 1 THEN parts[1]
    ELSE parts[1] \o ":" \o Join(Tail(parts))

\* the values of the fields that are present, in the order of the fields
RECURSIVE Parts(_, _)
Parts(c, fields) ==
    IF fields = <<>> THEN <<>>
    ELSE IF Head(fields) \in DOMAIN c.data
         THEN <<Display(c.data[Head(fields)])>> \o Parts(c, Tail(fields))
         ELSE Parts(c, Tail(fields))

\* a faulty compute_id: the identity fields are ignored, every key is hashed
ComputeIdAllKeys(c) ==
    Sha1Mod100(Join(Parts(c, SelectSeq(PropertyOrder,
                                       LAMBDA k : k \in DOMAIN c.data))))

\* FeatureContext::compute_id
ComputeId(c) ==
    LET fields == IF c.identity_fields = <<>>
                  THEN SelectSeq(PropertyOrder, LAMBDA k : k \in DOMAIN c.data)
                  ELSE c.identity_fields
    IN  Sha1Mod100(Join(Parts(c, fields)))

\* FeatureContext::id: the value returned
Id(c) == IF c.cached_id # ID_NOT_COMPUTED THEN c.cached_id ELSE ComputeId(c)

\* a faulty id: what is cached is the id of the empty id string, taken before
\* the parts are pushed
AfterIdEarly(c) ==
    [c EXCEPT !.cached_id = IF c.cached_id # ID_NOT_COMPUTED THEN c.cached_id
                            ELSE Sha1Mod100("")]

\* FeatureContext::id: the context after the call
AfterId(c) == [c EXCEPT !.cached_id = Id(c)]

(***************************************************************************)
(* features.rs: conditions, segments and FeatureData::evaluate.            *)
(***************************************************************************)
\* OperatorKind, under serde's snake_case names
OperatorKinds ==
    {"in", "not_in", "contains", "not_contains", "equals", "not_equals"}

ConditionData(property, kind, value) ==
    [property |-> property, operator |-> [kind |-> kind, value |-> value]]

SegmentData(name, rollout, conditions) ==
    [name |-> name, rollout |-> rollout, conditions |-> conditions]

FeatureData(enabled, segments) == [enabled |-> enabled, segments |-> segments]

\* the list variants of ContextValue
IsList(prop) ==
    prop[1] \in {"StringList", "IntList", "FloatList", "BoolList"}

\* scalar_eq; Value::as_f64 also converts an integer number
ScalarEq(prop, json_val) ==
    CASE prop[1] = "String" ->
            /\ json_val[1] = "string"
            /\ ToLowercase(prop[2]) = ToLowercase(json_val[2])
      [] prop[1] = "Int" -> json_val[1] = "i64" /\ prop[2] = json_val[2]
      [] prop[1] = "Float" ->
            json_val[1] \in {"f64", "i64"} /\ prop[2] = json_val[2]
      [] prop[1] = "Bool" -> json_val[1] = "bool" /\ prop[2] = json_val[2]
      [] OTHER -> FALSE

\* evaluate_in
EvaluateIn(prop, operator_value) ==
    IF prop = NoValue THEN FALSE
    ELSE IF IsList(prop) THEN FALSE
    ELSE IF operator_value[1] # "array" THEN FALSE
    ELSE \E i \in DOMAIN operator_value[2] :
            ScalarEq(prop, operator_value[2][i])

\* evaluate_contains
EvaluateContains(prop, operator_value) ==
    IF prop = NoValue THEN FALSE
    ELSE CASE prop[1] = "StringList" ->
                 /\ operator_value[1] = "string"
                 /\ \E i \in DOMAIN prop[2] :
                       ToLowercase(prop[2][i]) = ToLowercase(operator_value[2])
           [] prop[1] = "IntList" ->
                 /\ operator_value[1] = "i64"
                 /\ \E i \in DOMAIN prop[2] : prop[2][i] = operator_value[2]
           [] prop[1] = "FloatList" ->
                 /\ operator_value[1] \in {"f64", "i64"}
                 /\ \E i \in DOMAIN prop[2] : prop[2][i] = operator_value[2]
           [] prop[1] = "BoolList" ->
                 /\ operator_value[1] = "bool"
                 /\ \E i \in DOMAIN prop[2] : prop[2][i] = operator_value[2]
           [] OTHER -> FALSE

\* evaluate_equals
EvaluateEquals(prop, operator_value) ==
    IF prop = NoValue THEN FALSE ELSE ScalarEq(prop, operator_value)

\* a faulty ConditionData::evaluate: a condition on a property the context
\* lacks is false under every kind
ConditionEvaluateAbsentFalse(condition, c) ==
    LET prop == ContextGet(c, condition.property)
        value == condition.operator.value
        kind == condition.operator.kind
    IN  IF prop = NoValue THEN FALSE
        ELSE CASE kind = "in" -> EvaluateIn(prop, value)
               [] kind = "not_in" -> ~EvaluateIn(prop, value)
               [] kind = "contains" -> EvaluateContains(prop, value)
               [] kind = "not_contains" -> ~EvaluateContains(prop, value)
               [] kind = "equals" -> EvaluateEquals(prop, value)
               [] kind = "not_equals" -> ~EvaluateEquals(prop, value)

\* ConditionData::evaluate
ConditionEvaluate(condition, c) ==
    LET prop == ContextGet(c, condition.property)
        value == condition.operator.value
        kind == condition.operator.kind
    IN  CASE kind = "in" -> EvaluateIn(prop, value)
          [] kind = "not_in" -> ~EvaluateIn(prop, value)
          [] kind = "contains" -> EvaluateContains(prop, value)
          [] kind = "not_contains" -> ~EvaluateContains(prop, value)
          [] kind = "equals" -> EvaluateEquals(prop, value)
          [] kind = "not_equals" -> ~EvaluateEquals(prop, value)

\* SegmentData::all_conditions_match
AllConditionsMatch(segment, c) ==
    \A i \in DOMAIN segment.conditions :
        ConditionEvaluate(segment.conditions[i], c)

\* a faulty in_rollout: rollouts 0 and 100 are compared with the id like the
\* others
InRolloutNoEdges(rollout, id) == id <= rollout

\* a faulty in_rollout: the bucket equal to the rollout is left out
InRolloutStrict(rollout, id) ==
    IF rollout = 0 THEN FALSE
    ELSE IF rollout = 100 THEN TRUE
    ELSE id < rollout

\* SegmentData::in_rollout, for the bucket id that ctx.id() returns
InRolloutAt(rollout, id) ==
    IF rollout = 0 THEN FALSE
    ELSE IF rollout = 100 THEN TRUE
    ELSE id <= rollout

\* SegmentData::in_rollout
InRollout(segment, c) == InRolloutAt(segment.rollout, Id(c))

\* the context after in_rollout: ctx.id() is called unless the rollout is 0
\* or 100
AfterInRollout(segment, c) ==
    IF segment.rollout = 0 \/ segment.rollout = 100 THEN c ELSE AfterId(c)

\* a faulty loop: a segment that matches but is not in rollout decides the
\* feature
ScanSegmentsStops(segments, c) ==
    IF segments = <<>> THEN [result |-> FALSE, ctx |-> c]
    ELSE LET matching ==
                 {i \in DOMAIN segments : AllConditionsMatch(segments[i], c)}
         IN  IF matching = {} THEN [result |-> FALSE, ctx |-> c]
             ELSE LET first == CHOOSE i \in matching :
                                  \A j \in matching : i <= j
                  IN  [result |-> InRollout(segments[first], c),
                       ctx |-> AfterInRollout(segments[first], c)]

\* the loop of FeatureData::evaluate: the result, and the context after it
RECURSIVE ScanSegments(_, _)
ScanSegments(segments, c) ==
    IF segments = <<>> THEN [result |-> FALSE, ctx |-> c]
    ELSE LET segment == Head(segments)
         IN  IF AllConditionsMatch(segment, c)
             THEN IF InRollout(segment, c)
                  THEN [result |-> TRUE, ctx |-> AfterInRollout(segment, c)]
                  ELSE ScanSegments(Tail(segments),
                                    AfterInRollout(segment, c))
             ELSE ScanSegments(Tail(segments), c)

\* a faulty FeatureData::evaluate: the enabled flag is not looked at
EvaluateIgnoresEnabled(feature, c) == ScanSegments(feature.segments, c)

\* FeatureData::evaluate (the debug log lines aside)
Evaluate(feature, c) ==
    IF ~feature.enabled THEN [result |-> FALSE, ctx |-> c]
    ELSE ScanSegments(feature.segments, c)

(***************************************************************************)
(* The feature config as JSON text, and its deserialisation by serde.  A   *)
(* JSON object is the function from the fields it has to their values.     *)
(***************************************************************************)
\* the object with the fields of r named in S
Object(r, S) == [k \in S |-> r[k]]

\* fn default_rollout
DefaultRollout == 100
\* the largest u8, the type of SegmentData.rollout
U8Max == 255

\* a deserialisation: Err, or Ok with the data
ParseErr == [ok |-> FALSE, data |-> <<>>]
ParseOk(data) == [ok |-> TRUE, data |-> data]

\* #[derive(Deserialize)] ConditionData, OperatorData, OperatorKind: every
\* field is required and the kind is one of the six
ParseCondition(raw) ==
    IF /\ "property" \in DOMAIN raw
       /\ "operator" \in DOMAIN raw
       /\ "kind" \in DOMAIN raw.operator
       /\ raw.operator.kind \in OperatorKinds
       /\ "value" \in DOMAIN raw.operator
    THEN ParseOk(ConditionData(raw.property, raw.operator.kind,
                               raw.operator.value))
    ELSE ParseErr

\* #[derive(Deserialize)] SegmentData: name is required, rollout is a u8 and
\* defaults to 100, conditions default to none
ParseSegment(raw) ==
    LET conditions == IF "conditions" \in DOMAIN raw
                      THEN [i \in DOMAIN raw.conditions |->
                               ParseCondition(raw.conditions[i])]
                      ELSE <<>>
    IN  IF /\ "name" \in DOMAIN raw
           /\ "rollout" \in DOMAIN raw =>
                 /\ raw.rollout[1] = "i64"
                 /\ raw.rollout[2] \in 0..U8Max
           /\ \A i \in DOMAIN conditions : conditions[i].ok
        THEN ParseOk(SegmentData(
                 raw.name,
                 IF "rollout" \in DOMAIN raw THEN raw.rollout[2]
                 ELSE DefaultRollout,
                 [i \in DOMAIN conditions |-> conditions[i].data]))
        ELSE ParseErr

\* #[derive(Deserialize)] FeatureData: enabled is a required bool, segments
\* default to none
ParseFeature(raw) ==
    LET segments == IF "segments" \in DOMAIN raw
                    THEN [i \in DOMAIN raw.segments |->
                             ParseSegment(raw.segments[i])]
                    ELSE <<>>
    IN  IF /\ "enabled" \in DOMAIN raw
           /\ raw.enabled[1] = "bool"
           /\ \A i \in DOMAIN segments : segments[i].ok
        THEN ParseOk(FeatureData(raw.enabled[2] = 1,
                                 [i \in DOMAIN segments |-> segments[i].data]))
        ELSE ParseErr

\* a string value: text that is JSON or not, and the document it denotes
Text(wellformed, doc) == [wellformed |-> wellformed, doc |-> doc]

\* serde_json::from_str::<FeatureData>
FromStr(text) == IF text.wellformed THEN ParseFeature(text.doc) ELSE ParseErr

\* a faulty FeatureChecker::has: a config that cannot be read turns the
\* feature on
HasFailOpen(got, c) ==
    IF got.kind # "Ok" THEN [result |-> TRUE, ctx |-> c]
    ELSE IF got.val[1] # "string" THEN [result |-> TRUE, ctx |-> c]
    ELSE LET feature_data == FromStr(got.val[2])
         IN  IF ~feature_data.ok THEN [result |-> TRUE, ctx |-> c]
             ELSE Evaluate(feature_data.data, c)

\* FeatureChecker::has, given what self.options.get returned for
\* features.{feature_name}: the result, and the context after the call
Has(got, c) ==
    IF got.kind # "Ok" THEN [result |-> FALSE, ctx |-> c]
    ELSE IF got.val[1] # "string" THEN [result |-> FALSE, ctx |-> c]
    ELSE LET feature_data == FromStr(got.val[2])
         IN  IF ~feature_data.ok THEN [result |-> FALSE, ctx |-> c]
             ELSE Evaluate(feature_data.data, c)

(***************************************************************************)
(* Calls into the feature evaluation, and what they are called with.       *)
(***************************************************************************)
\* how many segments a feature built in memory has at most
MaxSegments == 2
\* ctx.id() is a bucket in 0..Buckets-1 (line 185: % 100)
Buckets == 100

NoFeatureCall == [kind |-> "none"]
NoResult == [done |-> FALSE, value |-> FALSE]
Result(value) == [done |-> TRUE, value |-> value]
\* the number that FeatureContext::id and the reduction of compute_id return
IdResult(id) == [done |-> TRUE, value |-> id]

\* the values the fields of a context take
ContextValues ==
    {CvString("a"), CvString("A"), CvString("b"), CvInt(1), CvFloat(1),
     CvBool(1), CvBool(0), CvStringList(<<"a">>), CvIntList(<<1>>),
     CvString("I"), CvString("U+0131")}

\* the operands of a condition
Operands ==
    {JStr("a"), JStr("B"), JInt(1), JFloat(1), JBool(1), JNull, JArray(<<>>),
     JArray(<<JStr("A")>>), JArray(<<JInt(1), JStr("b")>>), JStr("U+0131")}

\* ConditionData::evaluate on every condition and every fresh context
ConditionCalls ==
    {[kind |-> "condition", condition |-> ConditionData(p, k, v)] :
        p \in Properties, k \in OperatorKinds, v \in Operands}
ConditionContexts ==
    {FeatureContext(d, <<>>, ID_NOT_COMPUTED) :
        d \in PartialMaps(Properties, ContextValues)}

\* SegmentData::in_rollout on every rollout a u8 holds and every bucket
RolloutCalls ==
    {[kind |-> "in_rollout", rollout |-> r, id |-> i] :
        r \in 0..U8Max, i \in 0..(Buckets - 1)}

\* FeatureData::evaluate on features of segments with these conditions and
\* rollouts, and on the contexts that tell them apart (their ids are 5, 52,
\* 20, 83, 59 and 23)
EvalConditionLists ==
    LET c1 == ConditionData("p", "in", JArray(<<JStr("A")>>))
        c2 == ConditionData("q", "equals", JInt(1))
    IN  {<<>>, <<c1>>, <<c2>>, <<c1, c2>>}
EvalRollouts == {0, 20, 50, 100}
EvalSegments ==
    {SegmentData("s", r, cs) : r \in EvalRollouts, cs \in EvalConditionLists}
EvaluateCalls ==
    {[kind |-> "evaluate", feature |-> FeatureData(e, ss)] :
        e \in BOOLEAN,
        ss \in UNION {[1..n -> EvalSegments] : n \in 0..MaxSegments}}
EvalContexts ==
    {FeatureContext(d, <<>>, ID_NOT_COMPUTED) :
        d \in {m \in PartialMaps(Properties, {CvString("a"), CvString("b"),
                                              CvInt(1)}) :
                 /\ "p" \in DOMAIN m => m["p"][1] = "String"
                 /\ "q" \in DOMAIN m => m["q"][1] = "Int"}}

\* the feature configs FeatureChecker::has may read: each field present or
\* not, the rollout in and out of the range of a u8, the six operator kinds
\* and one that does not exist
RawConditions ==
    LET operators ==
            {Object([kind |-> k, value |-> JArray(<<JStr("a")>>)], S) :
                k \in OperatorKinds \cup {"bananas"},
                S \in {{"kind", "value"}, {"kind"}}}
    IN  {Object([property |-> "p", operator |-> o], S) :
            o \in operators,
            S \in {{"property", "operator"}, {"operator"}}}
        \cup {Object([property |-> "p"], {"property"})}
RawRollouts ==
    {JInt(0 - 1), JInt(0), JInt(50), JInt(100), JInt(101), JInt(U8Max),
     JInt(U8Max + 1), JInt(500), JStr("50")}
RawSegments ==
    {Object([name |-> "s", rollout |-> r, conditions |-> cs], S) :
        r \in RawRollouts,
        cs \in {<<>>} \cup {<<c>> : c \in RawConditions},
        S \in {{"name", "rollout", "conditions"}, {"rollout", "conditions"},
               {"name", "conditions"}, {"name", "rollout"}}}
RawFeatures ==
    {Object([enabled |-> e, segments |-> ss], S) :
        e \in {JBool(1), JBool(0), JInt(1)},
        ss \in {<<>>} \cup {<<sg>> : sg \in RawSegments}
               \cup {<<Object([name |-> "s", rollout |-> r1], {"name", "rollout"}),
                       Object([name |-> "s", rollout |-> r2], {"name", "rollout"})>> :
                        r1 \in RawRollouts, r2 \in RawRollouts},
        S \in {{"enabled", "segments"}, {"enabled"}, {"segments"}}}

\* what self.options.get returns to FeatureChecker::has
HasCalls ==
    {[kind |-> "has", got |-> g] :
        g \in {Err("UnknownNamespace"), Err("UnknownOption"), Ok(JInt(1)),
               Ok(JStr(Text(FALSE, Object([enabled |-> JBool(1)], {}))))}
              \cup {Ok(JStr(Text(TRUE, f))) : f \in RawFeatures}}
HasContexts ==
    {FeatureContext(d, <<>>, ID_NOT_COMPUTED) :
        d \in PartialMaps({"p"}, {CvString("a"), CvString("b")})}

\* how many bytes the sequences have that the reduction is tried on
MaxBytes == 3
\* the bytes they are made of
ByteSamples == {0, 1, 7, 99, 100, 128, 200, 255}
\* the sequences; read as one base-256 number they stay below 2^31
ByteSeqs ==
    {b \in UNION {[1..n -> ByteSamples] : n \in 0..MaxBytes} :
        Len(b) > 3 => b[1] <= 100}
ReduceCalls == {[kind |-> "reduce", bytes |-> b] : b \in ByteSeqs}

\* the reduction loop of compute_id on a sequence of bytes
ReduceCall ==
    /\ call.kind = "reduce"
    /\ ~fres.done
    /\ fres' = IdResult(Reduce(call.bytes))
    /\ UNCHANGED <<call, ctx, registry, initialized, pc, ret>>
    /\ UNCHANGED <<storeVars, overrides, guards, ops, nested, last>>
    /\ UNCHANGED processVars

\* ConditionData::evaluate
ConditionCall ==
    /\ call.kind = "condition"
    /\ ~fres.done
    /\ fres' = Result(ConditionEvaluate(call.condition, ctx))
    /\ UNCHANGED <<call, ctx, registry, initialized, pc, ret>>
    /\ UNCHANGED <<storeVars, overrides, guards, ops, nested, last>>
    /\ UNCHANGED processVars

\* SegmentData::in_rollout
RolloutCall ==
    /\ call.kind = "in_rollout"
    /\ ~fres.done
    /\ fres' = Result(InRolloutAt(call.rollout, call.id))
    /\ UNCHANGED <<call, ctx, registry, initialized, pc, ret>>
    /\ UNCHANGED <<storeVars, overrides, guards, ops, nested, last>>
    /\ UNCHANGED processVars

\* FeatureData::evaluate
EvaluateCall ==
    /\ call.kind = "evaluate"
    /\ ~fres.done
    /\ fres' = Result(Evaluate(call.feature, ctx).result)
    /\ ctx' = Evaluate(call.feature, ctx).ctx
    /\ UNCHANGED <<call, registry, initialized, pc, ret>>
    /\ UNCHANGED <<storeVars, overrides, guards, ops, nested, last>>
    /\ UNCHANGED processVars

\* FeatureChecker::has
HasCall ==
    /\ call.kind = "has"
    /\ ~fres.done
    /\ fres' = Result(Has(call.got, ctx).result)
    /\ ctx' = Has(call.got, ctx).ctx
    /\ UNCHANGED <<call, registry, initialized, pc, ret>>
    /\ UNCHANGED <<storeVars, overrides, guards, ops, nested, last>>
    /\ UNCHANGED processVars

(***************************************************************************)
(* One FeatureContext under a sequence of insert, identity_fields, id and  *)
(* evaluate calls.                                                         *)
(***************************************************************************)
\* how many names a call of identity_fields passes at most
MaxIdentityFields == 2

\* sorted.sort(): the names in lexicographic order, repeated names kept
RECURSIVE SortBy(_, _)
SortBy(order, fields) ==
    IF order = <<>> THEN <<>>
    ELSE SelectSeq(fields, LAMBDA f : f = Head(order))
            \o SortBy(Tail(order), fields)
Sorted(fields) == SortBy(PropertyOrder, fields)

\* HashMap::insert on the fields of a context
DataInsert(data, key, value) ==
    [k \in DOMAIN data \cup {key} |-> IF k = key THEN value ELSE data[k]]

\* a faulty insert: the cached id is kept
InsertKeepsCache(c, key, value) ==
    [c EXCEPT !.data = DataInsert(c.data, key, value)]

\* FeatureContext::insert
Insert(c, key, value) ==
    [c EXCEPT !.data = DataInsert(c.data, key, value),
              !.cached_id = ID_NOT_COMPUTED]

\* FeatureContext::identity_fields
IdentityFields(c, fields) ==
    [c EXCEPT !.identity_fields = Sorted(fields),
              !.cached_id = ID_NOT_COMPUTED]

\* the values inserted, the lists of names passed, the features evaluated
InsertValues == {CvString("a"), CvString("b"), CvInt(1)}
FieldLists == UNION {[1..n -> Properties] : n \in 0..MaxIdentityFields}
ContextFeatures ==
    {FeatureData(TRUE, <<SegmentData("s", r, <<>>)>>) : r \in {20, 50}}

ContextInsert(key, value) ==
    /\ ctx' = Insert(ctx, key, value)
    /\ call' = [kind |-> "insert", key |-> key, value |-> value]
    /\ fres' = NoResult
    /\ UNCHANGED <<registry, initialized, pc, ret>>
    /\ UNCHANGED <<storeVars, overrides, guards, ops, nested, last>>
    /\ UNCHANGED processVars

ContextIdentityFields(fields) ==
    /\ ctx' = IdentityFields(ctx, fields)
    /\ call' = [kind |-> "identity_fields", fields |-> fields]
    /\ fres' = NoResult
    /\ UNCHANGED <<registry, initialized, pc, ret>>
    /\ UNCHANGED <<storeVars, overrides, guards, ops, nested, last>>
    /\ UNCHANGED processVars

ContextId ==
    /\ fres' = IdResult(Id(ctx))
    /\ ctx' = AfterId(ctx)
    /\ call' = [kind |-> "id"]
    /\ UNCHANGED <<registry, initialized, pc, ret>>
    /\ UNCHANGED <<storeVars, overrides, guards, ops, nested, last>>
    /\ UNCHANGED processVars

ContextEvaluate(feature) ==
    /\ fres' = Result(Evaluate(feature, ctx).result)
    /\ ctx' = Evaluate(feature, ctx).ctx
    /\ call' = [kind |-> "evaluate", feature |-> feature]
    /\ UNCHANGED <<registry, initialized, pc, ret>>
    /\ UNCHANGED <<storeVars, overrides, guards, ops, nested, last>>
    /\ UNCHANGED processVars

(***************************************************************************)
(* The store after Options::from_directory: the registry is loaded, the    *)
(* directory passed the initial load, the watcher is idle.                 *)
(***************************************************************************)
InitOptions ==
    /\ registry \in Registries
    /\ disk \in {d \in DiskContents : LoadValuesJson(registry, d).ok}
    /\ values = LoadValuesJson(registry, disk).values
    /\ writing = FALSE
    /\ readers = {}
    /\ diskWrites = 0
    /\ changed = FALSE
    /\ wpc = "idle"
    /\ wlocal = values
    /\ diagnostics = 0
    /\ pc = [t \in Threads |-> Idle]
    /\ ret = NoCall
    /\ builds = 0
    /\ installed = NotInstalled
    /\ life = "alive"
    /\ watchers = {}
    /\ initialized = FALSE
    /\ overrides = [t \in Threads |-> EmptyStore]
    /\ guards = <<>>
    /\ ops = 0
    /\ nested = [t \in Threads |-> TRUE]
    /\ last = Op("", "", TRUE, 0, <<>>)

\* no feature is being evaluated
Init ==
    /\ InitOptions
    /\ call = NoFeatureCall
    /\ ctx = NewContext
    /\ fres = NoResult

\* readers, and the watcher reloading the directory
Next ==
    \/ \E c \in DiskContents : DiskWrite(c)
    \/ WatcherLoad
    \/ WatcherLock
    \/ WatcherSwap
    \/ \E t \in Threads, n \in Namespaces, k \in Keys : GetCall(t, n, k)
    \/ \E t \in Threads : GetReturn(t)

Spec == Init /\ [][Next]_vars

\* the fixture of the override tests: an int option with a stored value and a
\* bool option left at its default
InitOverride ==
    /\ Init
    /\ registry = RegistryB
    /\ values = [n \in {"n1"} |-> [k \in {"k1"} |-> JInt(1)]]

\* Options::isset while the watcher reloads the values directory
NextIsset ==
    \/ \E c \in DiskContents : DiskWrite(c)
    \/ WatcherLoad
    \/ WatcherLock
    \/ WatcherSwap
    \/ \E t \in Threads, n \in Namespaces, k \in Keys : IssetCall(t, n, k)
    \/ \E t \in Threads : IssetReturn(t)

SpecIsset == Init /\ [][NextIsset]_vars

(***************************************************************************)
(* The store under a fair scheduler: every thread that can take a step     *)
(* eventually takes it, and the lock lets no reader in past a writer that  *)
(* waits for it.                                                           *)
(***************************************************************************)
\* the watcher waits in values.write()
WriterWaits == wpc = "loaded"

\* a get that arrives while the watcher waits for the lock queues behind it
QueuedGet(t, namespace, key) ==
    /\ ~WriterWaits
    /\ GetCall(t, namespace, key)

NextLive ==
    \/ \E c \in DiskContents : DiskWrite(c)
    \/ WatcherLoad
    \/ WatcherLock
    \/ WatcherSwap
    \/ \E t \in Threads, n \in Namespaces, k \in Keys : QueuedGet(t, n, k)
    \/ \E t \in Threads : GetReturn(t)

\* the watcher thread and the readers inside get keep running
Fairness ==
    /\ WF_vars(WatcherLoad)
    /\ WF_vars(WatcherLock)
    /\ WF_vars(WatcherSwap)
    /\ \A t \in Threads : WF_vars(GetReturn(t))

SpecLive == Init /\ [][NextLive]_vars /\ Fairness

(***************************************************************************)
(* The drop of an Options: its fields are dropped, the last of them the    *)
(* ValuesWatcher, whose drop tells the watcher thread to stop and waits    *)
(* for it.                                                                 *)
(***************************************************************************)
\* a get on the store: only while the store exists
StoreGet(t, namespace, key) ==
    /\ life = "alive"
    /\ GetCall(t, namespace, key)

\* the owner lets go of the store; no call on it is in progress
DropBegin ==
    /\ life = "alive"
    /\ \A t \in Threads : pc[t] = Idle
    /\ life' = "stopping"
    /\ UNCHANGED <<registry, initialized, builds, installed, watchers, pc, ret,
                   overrides, guards, ops, nested, last>>
    /\ UNCHANGED storeVars
    /\ UNCHANGED featureVars

\* the watcher thread, between two reloads, sees that it was told to stop
\* and ends
WatcherStop ==
    /\ life = "stopping"
    /\ wpc = "idle"
    /\ wpc' = "stopped"
    /\ UNCHANGED <<registry, values, writing, readers, disk, diskWrites,
                   changed, wlocal, diagnostics, pc, ret, initialized,
                   overrides, guards, ops, nested, last>>
    /\ UNCHANGED featureVars
    /\ UNCHANGED processVars

\* a faulty drop: the thread is left detached
JoinedDetached == TRUE

\* the join on the watcher thread returns once the thread has ended
Joined == wpc = "stopped"

\* the drop completes
DropEnd ==
    /\ life = "stopping"
    /\ Joined
    /\ life' = "dropped"
    /\ UNCHANGED <<registry, initialized, builds, installed, watchers, pc, ret,
                   overrides, guards, ops, nested, last>>
    /\ UNCHANGED storeVars
    /\ UNCHANGED featureVars

\* readers and the watcher on a store that is dropped at some point
NextDrop ==
    \/ \E c \in DiskContents : DiskWrite(c)
    \/ WatcherLoad
    \/ WatcherLock
    \/ WatcherSwap
    \/ \E t \in Threads, n \in Namespaces, k \in Keys : StoreGet(t, n, k)
    \/ \E t \in Threads : GetReturn(t)
    \/ DropBegin
    \/ WatcherStop
    \/ DropEnd

SpecDrop == Init /\ [][NextDrop]_vars

\* init() called from several threads while the directory is rewritten
NextInit ==
    \/ \E c \in DiskContents : DiskWrite(c)
    \/ \E t \in Threads : InitBuild(t)
    \/ \E t \in Threads : InitSet(t)

SpecInit == Init /\ [][NextInit]_vars

\* a feature call about to be made, with its arguments
InitFeature ==
    /\ InitOptions
    /\ registry = RegistryB
    /\ values = [n \in {"n1"} |-> [k \in {"k1"} |-> JInt(1)]]
    /\ fres = NoResult
    /\ \/ call \in ConditionCalls /\ ctx \in ConditionContexts
       \/ call \in RolloutCalls /\ ctx = NewContext
       \/ call \in EvaluateCalls /\ ctx \in EvalContexts
       \/ call \in HasCalls /\ ctx \in HasContexts
       \/ call \in ReduceCalls /\ ctx = NewContext

NextFeature ==
    ConditionCall \/ RolloutCall \/ EvaluateCall \/ HasCall \/ ReduceCall

SpecFeature == InitFeature /\ [][NextFeature]_vars

\* a context from FeatureContext::new on
InitContext ==
    /\ InitOptions
    /\ registry = RegistryB
    /\ values = [n \in {"n1"} |-> [k \in {"k1"} |-> JInt(1)]]
    /\ call = NoFeatureCall
    /\ ctx = NewContext
    /\ fres = NoResult

NextContext ==
    \/ \E k \in Properties, v \in InsertValues : ContextInsert(k, v)
    \/ \E fields \in FieldLists : ContextIdentityFields(fields)
    \/ ContextId
    \/ \E feature \in ContextFeatures : ContextEvaluate(feature)

SpecContext == InitContext /\ [][NextContext]_vars

(***************************************************************************)
(* One FeatureContext shared by threads that call id() on it: each line of *)
(* id() is a step, each access of the AtomicU8 is atomic.                  *)
(***************************************************************************)
\* a thread outside id(), and inside it with its locals `cached`, `computed`
Outside == [st |-> "idle", cached |-> ID_NOT_COMPUTED, computed |-> ID_NOT_COMPUTED]

\* let cached = self.cached_id.load(Ordering::Relaxed)
IdLoad(t) ==
    /\ call[t].st = "idle"
    /\ call' = [call EXCEPT ![t] = [st |-> "loaded", cached |-> ctx.cached_id,
                                    computed |-> ID_NOT_COMPUTED]]
    /\ UNCHANGED <<ctx, fres>>
    /\ UNCHANGED <<registry, initialized, pc, ret>>
    /\ UNCHANGED <<storeVars, overrides, guards, ops, nested, last>>
    /\ UNCHANGED processVars

\* if cached != ID_NOT_COMPUTED { return cached as u64 }
IdHit(t) ==
    /\ call[t].st = "loaded"
    /\ call[t].cached # ID_NOT_COMPUTED
    /\ fres' = [fres EXCEPT ![t] = IdResult(call[t].cached)]
    /\ call' = [call EXCEPT ![t].st = "idle"]
    /\ UNCHANGED ctx
    /\ UNCHANGED <<registry, initialized, pc, ret>>
    /\ UNCHANGED <<storeVars, overrides, guards, ops, nested, last>>
    /\ UNCHANGED processVars

\* a faulty id: the reduction runs in the shared slot, which holds the
\* accumulator's 0 while the digest is computed
IdComputeInPlace(t) ==
    /\ call[t].st = "loaded"
    /\ call[t].cached = ID_NOT_COMPUTED
    /\ call' = [call EXCEPT ![t].st = "computed", ![t].computed = ComputeId(ctx)]
    /\ ctx' = [ctx EXCEPT !.cached_id = 0]
    /\ UNCHANGED fres
    /\ UNCHANGED <<registry, initialized, pc, ret>>
    /\ UNCHANGED <<storeVars, overrides, guards, ops, nested, last>>
    /\ UNCHANGED processVars

\* let computed = self.compute_id()
IdCompute(t) ==
    /\ call[t].st = "loaded"
    /\ call[t].cached = ID_NOT_COMPUTED
    /\ call' = [call EXCEPT ![t].st = "computed", ![t].computed = ComputeId(ctx)]
    /\ UNCHANGED <<ctx, fres>>
    /\ UNCHANGED <<registry, initialized, pc, ret>>
    /\ UNCHANGED <<storeVars, overrides, guards, ops, nested, last>>
    /\ UNCHANGED processVars

\* self.cached_id.store(computed, Ordering::Relaxed)
IdStore(t) ==
    /\ call[t].st = "computed"
    /\ ctx' = [ctx EXCEPT !.cached_id = call[t].computed]
    /\ call' = [call EXCEPT ![t].st = "stored"]
    /\ UNCHANGED fres
    /\ UNCHANGED <<registry, initialized, pc, ret>>
    /\ UNCHANGED <<storeVars, overrides, guards, ops, nested, last>>
    /\ UNCHANGED processVars

\* computed as u64
IdReturn(t) ==
    /\ call[t].st = "stored"
    /\ fres' = [fres EXCEPT ![t] = IdResult(call[t].computed)]
    /\ call' = [call EXCEPT ![t].st = "idle"]
    /\ UNCHANGED ctx
    /\ UNCHANGED <<registry, initialized, pc, ret>>
    /\ UNCHANGED <<storeVars, overrides, guards, ops, nested, last>>
    /\ UNCHANGED processVars

\* the contexts insert and identity_fields build, before and after an id()
SharedContexts ==
    {c \in {FeatureContext(d, Sorted(f), i) :
               d \in PartialMaps(Properties, InsertValues), f \in FieldLists,
               i \in 0..ID_NOT_COMPUTED} :
        c.cached_id \in {ID_NOT_COMPUTED, ComputeId(c)}}

InitShared ==
    /\ InitOptions
    /\ registry = RegistryA
    /\ DOMAIN disk = {}
    /\ ctx \in SharedContexts
    /\ call = [t \in Threads |-> Outside]
    /\ fres = [t \in Threads |-> NoResult]

NextShared ==
    \/ \E t \in Threads : IdLoad(t)
    \/ \E t \in Threads : IdHit(t)
    \/ \E t \in Threads : IdCompute(t)
    \/ \E t \in Threads : IdStore(t)
    \/ \E t \in Threads : IdReturn(t)

SpecShared == InitShared /\ [][NextShared]_vars

(***************************************************************************)
(* FeatureChecker::has on the live store: the config of feature f is the   *)
(* string option features.f of namespace n1.                               *)
(***************************************************************************)
\* format!("features.{feature_name}") for the feature f
FeatureKey == "features.f"

\* the configs the option takes: the feature on for everybody, off, and a
\* text that is not JSON
ConfigOn ==
    JStr(Text(TRUE, [enabled |-> JBool(1),
                     segments |-> <<[name |-> "s", conditions |-> <<>>]>>]))
ConfigOff == JStr(Text(TRUE, Object([enabled |-> JBool(0)], {"enabled"})))
ConfigBroken == JStr(Text(FALSE, Object([enabled |-> JBool(0)], {})))
Configs == {ConfigOn, ConfigOff, ConfigBroken}

\* the schema of n1, and the values files the directory may hold
RegistryF ==
    [n \in {"n1"} |-> [k \in {FeatureKey} |-> OptionSchema("str", ConfigOff)]]
FeatureDisks ==
    {[n \in {"n1"} |-> [k \in {FeatureKey} |-> v]] : v \in Configs \cup {JInt(1)}}
        \cup {[n \in {"n1"} |-> EmptyMap]}

\* Options::get, from the lookup of the namespace to the return
Get(reg, vals, namespace, key) ==
    IF GetSchema(reg, namespace) = {} THEN Err("UnknownNamespace")
    ELSE GetLocked(reg, vals, namespace, key)

\* FeatureChecker::has called by thread t with a context: the get, which
\* needs the read lock, then the parse and the evaluation
CheckerHas(t, c) ==
    /\ pc[t] = Idle
    /\ CanRead
    /\ LET got == Get(registry, values, "n1", FeatureKey)
       IN  /\ call' = [kind |-> "has", t |-> t, got |-> got, arg |-> c]
           /\ fres' = Result(Has(got, c).result)
           /\ ctx' = Has(got, c).ctx
    /\ UNCHANGED <<registry, initialized, pc, ret>>
    /\ UNCHANGED <<storeVars, overrides, guards, ops, nested, last>>
    /\ UNCHANGED processVars

InitHas ==
    /\ registry = RegistryF
    /\ disk \in {d \in FeatureDisks : LoadValuesJson(registry, d).ok}
    /\ values = LoadValuesJson(registry, disk).values
    /\ writing = FALSE
    /\ readers = {}
    /\ diskWrites = 0
    /\ changed = FALSE
    /\ wpc = "idle"
    /\ wlocal = values
    /\ diagnostics = 0
    /\ pc = [t \in Threads |-> Idle]
    /\ ret = NoCall
    /\ builds = 0
    /\ installed = NotInstalled
    /\ life = "alive"
    /\ watchers = {}
    /\ initialized = TRUE
    /\ overrides = [t \in Threads |-> EmptyStore]
    /\ guards = <<>>
    /\ ops = 0
    /\ nested = [t \in Threads |-> TRUE]
    /\ last = Op("", "", TRUE, 0, <<>>)
    /\ call = NoFeatureCall
    /\ ctx = NewContext
    /\ fres = NoResult

NextHas ==
    \/ \E c \in FeatureDisks : DiskWrite(c)
    \/ WatcherLoad
    \/ WatcherLock
    \/ WatcherSwap
    \/ \E t \in Threads, v \in Configs : SetOverride(t, "n1", FeatureKey, v)
    \/ \E t \in Threads : ClearOverride(t, "n1", FeatureKey)
    \/ \E t \in Threads, c \in HasContexts : CheckerHas(t, c)

SpecHas == InitHas /\ [][NextHas]_vars

\* reads of the store under set_override and clear_override
NextGet ==
    \/ \E t \in Threads, e \in Entries : SetOverride(t, e[1], e[2], e[3])
    \/ \E t \in Threads, p \in Pairs : ClearOverride(t, p[1], p[2])
    \/ \E t \in Threads, n \in Namespaces, k \in Keys : GetCall(t, n, k)
    \/ \E t \in Threads : GetReturn(t)

SpecGet == InitOverride /\ [][NextGet]_vars

\* the testing module, on every thread
NextOverride ==
    \/ \E t \in Threads : InitCall(t)
    \/ \E t \in Threads, e \in Entries : SetOverride(t, e[1], e[2], e[3])
    \/ \E t \in Threads, p \in Pairs : ClearOverride(t, p[1], p[2])
    \/ \E t \in Threads, b \in Batches : OverrideOptions(t, b)
    \/ \E t \in Threads, g \in 1..MaxOps : DropGuard(g, t)

SpecOverride == InitOverride /\ [][NextOverride]_vars

\* a guard goes out of scope, or is passed to drop(), on the thread that
\* created it
DropOnCreator(g) ==
    /\ g \in DOMAIN guards
    /\ \E t \in Threads : guards[g].creator = t /\ DropGuard(g, t)

\* guards created on threads that hold no override, and dropped in any
\* order by the thread that holds them
NextGuards ==
    \/ \E t \in Threads, b \in Batches : OverrideOptions(t, b)
    \/ \E g \in 1..MaxOps : DropOnCreator(g)

SpecGuards == InitOverride /\ [][NextGuards]_vars

\* override_options, with its arguments and the Result it returns on record
OverrideCall(t, batch) ==
    /\ OverrideOptionsStep(t, batch)
    /\ call' = [kind |-> "override_options", t |-> t, batch |-> batch]
    /\ ctx' = ctx
    /\ fres' = Result(Verdict(initialized, registry, batch).err)

\* override_options before and after init(), against either registry
NextValidate ==
    \/ \E t \in Threads : InitCall(t)
    \/ \E t \in Threads, b \in Batches : OverrideCall(t, b)

\* a store built from a directory without values files
InitValidate ==
    /\ Init
    /\ DOMAIN disk = {}

SpecValidate == InitValidate /\ [][NextValidate]_vars

(***************************************************************************)
(* sentry-options-validation: the load of one schema.json.                 *)
(***************************************************************************)
\* an option_type that is absent from the definition, or not a string
NoType == ""

\* SchemaRegistry::validate_option_definition: the definition has an
\* option_type, a string, one of the four supported, and a default
ValidateOptionDefinition(option) ==
    /\ option.option_type # NoType
    /\ option.option_type \in OptionTypes
    /\ option.default # NoValue

\* SchemaRegistry::validate_schema_structure: a version, and options that
\* are all well defined
ValidateSchemaStructure(file) ==
    /\ file.version
    /\ \A k \in DOMAIN file.options : ValidateOptionDefinition(file.options[k])

\* the NamespaceSchema serde builds from the document
Deserialize(file) ==
    [k \in DOMAIN file.options |->
        OptionSchema(file.options[k].option_type, file.options[k].default)]

\* SchemaRegistry::load_schema
LoadSchema(file) ==
    IF ValidateSchemaStructure(file)
    THEN [ok |-> TRUE, schema |-> Deserialize(file)]
    ELSE [ok |-> FALSE, schema |-> <<>>]

\* what a schema.json may say of an option, and of the namespace
FileTypes == {"int", "bool", "str", "list", NoType}
FileDefaults == {JInt(0), JBool(0), JStr("a"), NoValue}
FileOptions == [option_type : FileTypes, default : FileDefaults]
SchemaFiles == [version : BOOLEAN, options : PartialMaps(Keys, FileOptions)]

\* load_schema is called on a file
LoadSchemaCall ==
    /\ call.kind = "load_schema"
    /\ ~fres.done
    /\ fres' = Result(LoadSchema(call.file))
    /\ UNCHANGED <<call, ctx>>
    /\ UNCHANGED <<registry, initialized, pc, ret>>
    /\ UNCHANGED <<storeVars, overrides, guards, ops, nested, last>>
    /\ UNCHANGED processVars

InitSchema ==
    /\ InitOptions
    /\ registry = RegistryA
    /\ DOMAIN disk = {}
    /\ call \in {[kind |-> "load_schema", file |-> f] : f \in SchemaFiles}
    /\ ctx = NewContext
    /\ fres = NoResult

NextSchema == LoadSchemaCall

SpecSchema == InitSchema /\ [][NextSchema]_vars

(***************************************************************************)
(* Claims about the store.                                                 *)
(***************************************************************************)
\* thread t's Options::get returns in this step
GetReturns(t) == pc[t].st = "reading" /\ pc'[t] = Idle

Declared(namespace, key) ==
    namespace \in DOMAIN registry /\ key \in DOMAIN registry[namespace]

Stored(vals, namespace, key) ==
    namespace \in DOMAIN vals /\ key \in DOMAIN vals[namespace]

\* every stored value belongs to a registered namespace, to a declared key,
\* and has the JSON kind of the key's declared type
SnapshotValid(vals) ==
    \A n \in DOMAIN vals :
        /\ n \in DOMAIN registry
        /\ \A k \in DOMAIN vals[n] :
              /\ k \in DOMAIN registry[n]
              /\ \/ registry[n][k].option_type = "int" /\ vals[n][k][1] = "i64"
                 \/ registry[n][k].option_type = "bool" /\ vals[n][k][1] = "bool"
                 \/ registry[n][k].option_type = "str" /\ vals[n][k][1] = "string"
                 \/ registry[n][k].option_type = "float" /\ vals[n][k][1] = "f64"

\* C2: a reload that reads values failing schema validation is discarded: no
\* swap is pending after it, every (namespace, key) is answered as before it,
\* and nothing is handed to a reader by it.
C2_InvalidReloadKeepsSnapshot ==
    [][(wpc = "idle" /\ changed /\ ~changed' /\ ~SnapshotValid(disk))
        => /\ wpc' = "idle"
           /\ values' = values
           /\ ret' = ret
           /\ \A n \in DOMAIN registry, k \in Keys :
                 GetLocked(registry, values', n, k)
                    = GetLocked(registry, values, n, k)]_vars

\* C2 witness: a reload was discarded and the directory still holds the
\* invalid content, which differs from the snapshot in force
C2_Witness ==
    /\ diagnostics = 1
    /\ ~changed
    /\ wpc = "idle"
    /\ ~SnapshotValid(disk)
    /\ "n1" \in DOMAIN values
    /\ disk # values

\* C3: the map readers can see always passed whole-namespace validation, it
\* changes only by the watcher's swap of a whole validated snapshot under the
\* write lock, and a get returns the answer of the snapshot in force (the old
\* one until the swap, the new one after it), never anything else.
C3_ReadersSeeWholeValidSnapshots ==
    /\ [](~writing => SnapshotValid(values))
    /\ [][values' # values
            => wpc = "locked" /\ writing /\ values' = wlocal
               /\ SnapshotValid(wlocal) /\ readers = {}]_vars
    /\ [][\A t \in Threads :
            GetReturns(t) =>
               LET old == GetLocked(registry, values, pc[t].ns, pc[t].key)
                   new == GetLocked(registry, wlocal, pc[t].ns, pc[t].key)
               IN  \/ ret' = Returned(t, pc[t].ns, pc[t].key, old)
                   \/ writing /\ ret' = Returned(t, pc[t].ns, pc[t].key, new)]_vars

\* C3 witness: a reader holds the read lock while the watcher, its new
\* snapshot loaded and different for the key being read, waits to swap
C3_Witness ==
    /\ wpc = "loaded"
    /\ \E t \in readers :
          GetLocked(registry, values, pc[t].ns, pc[t].key)
             # GetLocked(registry, wlocal, pc[t].ns, pc[t].key)

\* C9: with no override set, a get on a registered namespace returns the
\* value the current snapshot holds for the key if it holds one, and otherwise
\* the key's declared default, also when the namespace has no values at all.
C9_GetReturnsValueElseDefault ==
    [][\A t \in Threads :
         (GetReturns(t) /\ GetOverride(t, pc[t].ns, pc[t].key) = NoValue) =>
            LET n == pc[t].ns
                k == pc[t].key
            IN  /\ ret'.t = t /\ ret'.ns = n /\ ret'.key = k
                /\ Stored(values, n, k) =>
                      ret'.kind = "Ok" /\ ret'.val = values[n][k]
                /\ (~Stored(values, n, k) /\ Declared(n, k)) =>
                      ret'.kind = "Ok" /\ ret'.val = registry[n][k].default]_vars

\* C9 witness: a get returned the default for a namespace without values
C9_Witness ==
    /\ ret.kind = "Ok"
    /\ ret.ns \notin DOMAIN values
    /\ ret.val = registry[ret.ns][ret.key].default
    /\ overrides[ret.t] = EmptyStore

\* C10: a get on an unregistered namespace fails with UnknownNamespace
\* whatever the key, a get on a registered namespace for a key neither stored
\* nor declared fails with UnknownOption, and a failed get carries no value.
C10_GetTypedErrors ==
    /\ [](ret.kind # "" =>
            /\ ret.ns \notin DOMAIN registry <=> ret.kind = "UnknownNamespace"
            /\ ret.kind # "Ok" => ret.val = NoValue
            /\ ret.kind = "Ok" => ret.val # NoValue)
    /\ [][\A t \in Threads :
            GetReturns(t) =>
               ((~Stored(values, pc[t].ns, pc[t].key)
                   /\ ~Declared(pc[t].ns, pc[t].key))
                <=> ret'.kind = "UnknownOption")]_vars

\* C10 witness: a get failed with UnknownOption on a registered namespace
C10_Witness ==
    /\ ret.kind = "UnknownOption"
    /\ ret.ns \in DOMAIN registry
    /\ ret.key \notin DOMAIN registry[ret.ns]

\* Options::isset returns to thread t in this step, from under the read lock
IssetReturns(t) == pc[t].st = "isset" /\ pc'[t] = Idle

\* C11: isset answers true exactly when the current snapshot holds a value
\* for a declared key and false when the key is declared but not stored, an
\* unregistered namespace fails with UnknownNamespace and a key the schema
\* does not declare fails with UnknownOption.
C11_IssetTrueIffStored ==
    /\ [][\A t \in Threads :
            IssetReturns(t) =>
               LET n == pc[t].ns
                   k == pc[t].key
               IN  /\ ret'.t = t /\ ret'.ns = n /\ ret'.key = k
                   /\ Declared(n, k)
                   /\ ret'.kind = "Ok"
                   /\ ret'.val = JBool(1) <=> Stored(values, n, k)
                   /\ ret'.val = JBool(0) <=> ~Stored(values, n, k)]_vars
    /\ [](ret.kind # "" =>
            /\ ret.ns \notin DOMAIN registry <=> ret.kind = "UnknownNamespace"
            /\ (ret.ns \in DOMAIN registry /\ ~Declared(ret.ns, ret.key))
                  <=> ret.kind = "UnknownOption"
            /\ Declared(ret.ns, ret.key) <=> ret.kind = "Ok"
            /\ ret.kind = "Ok" => ret.val \in {JBool(0), JBool(1)})

\* C11 witness: isset answered false for a declared key that has only its
\* default, in a namespace whose other key is stored
C11_Witness ==
    /\ ret.kind = "Ok"
    /\ ret.val = JBool(0)
    /\ ret.ns \in DOMAIN values
    /\ values[ret.ns] # << >>
    /\ GetDefault(registry[ret.ns], ret.key) # NoValue

(***************************************************************************)
(* Claims about FeatureChecker::has and the feature evaluation.            *)
(***************************************************************************)
\* FeatureChecker::has has returned
HasDone == call.kind = "has" /\ fres.done

\* the value of features.{name} is a string of well-formed JSON
HasDocument ==
    /\ call.kind = "has"
    /\ call.got.kind = "Ok"
    /\ call.got.val[1] = "string"
    /\ call.got.val[2].wellformed

\* the segments and the conditions written in a config document
DocSegments(doc) ==
    IF "segments" \in DOMAIN doc
    THEN {doc.segments[i] : i \in DOMAIN doc.segments} ELSE {}
DocConditions(doc) ==
    UNION {IF "conditions" \in DOMAIN sg
           THEN {sg.conditions[i] : i \in DOMAIN sg.conditions} ELSE {} :
           sg \in DocSegments(doc)}

\* a condition of the document lacks property, operator, kind or value
LacksField(doc) ==
    \E cd \in DocConditions(doc) :
       \/ "property" \notin DOMAIN cd
       \/ "operator" \notin DOMAIN cd
       \/ "operator" \in DOMAIN cd
             /\ {"kind", "value"} \ DOMAIN cd.operator # {}

\* a condition of the document names an operator kind that does not exist
UnknownKind(doc) ==
    \E cd \in DocConditions(doc) :
       /\ "operator" \in DOMAIN cd
       /\ "kind" \in DOMAIN cd.operator
       /\ cd.operator.kind \notin OperatorKinds

\* C12: has answers false, and answers with a bool, when the namespace is
\* unregistered, features.{name} is undeclared, its value is not a string, the
\* string is not JSON, a condition lacks a required field or an operator kind
\* is not one of the six.
C12_HasFalseWhenConfigUnreadable ==
    HasDone =>
       /\ fres.value \in BOOLEAN
       /\ call.got.kind \in {"UnknownNamespace", "UnknownOption"}
             => fres.value = FALSE
       /\ (call.got.kind = "Ok" /\ call.got.val[1] # "string")
             => fres.value = FALSE
       /\ (call.got.kind = "Ok" /\ call.got.val[1] = "string"
              /\ ~call.got.val[2].wellformed)
             => fres.value = FALSE
       /\ (HasDocument /\ LacksField(call.got.val[2].doc))
             => fres.value = FALSE
       /\ (HasDocument /\ UnknownKind(call.got.val[2].doc))
             => fres.value = FALSE

\* C12 witness: has answered for an enabled feature whose only condition has
\* an operator kind that does not exist
C12_Witness ==
    /\ HasDone
    /\ HasDocument
    /\ UnknownKind(call.got.val[2].doc)
    /\ ~LacksField(call.got.val[2].doc)
    /\ "enabled" \in DOMAIN call.got.val[2].doc
    /\ call.got.val[2].doc.enabled = JBool(1)
    /\ ~fres.value

\* a segment of the document has a rollout that is a number outside 0..100
RolloutOutOfRange(doc) ==
    \E sg \in DocSegments(doc) :
       /\ "rollout" \in DOMAIN sg
       /\ sg.rollout[1] = "i64"
       /\ sg.rollout[2] \notin 0..100

\* C13: has answers false for every context when a segment of the feature's
\* config has a rollout outside 0..100, be it in 101..255, larger or negative.
C13_HasFalseWhenRolloutOutOfRange ==
    (HasDone /\ HasDocument /\ RolloutOutOfRange(call.got.val[2].doc))
       => fres.value = FALSE

\* FeatureData::evaluate has returned
EvaluateDone == call.kind = "evaluate" /\ fres.done

\* C14: a feature with enabled = false evaluates to false for every context
\* and every list of segments, also through has.
C14_DisabledIsFalse ==
    /\ (EvaluateDone /\ ~call.feature.enabled) => fres.value = FALSE
    /\ (HasDone /\ HasDocument
          /\ "enabled" \in DOMAIN call.got.val[2].doc
          /\ call.got.val[2].doc.enabled = JBool(0)) => fres.value = FALSE

\* C14 witness: a disabled feature whose first segment has rollout 100 and no
\* conditions was evaluated
C14_Witness ==
    /\ EvaluateDone
    /\ ~call.feature.enabled
    /\ call.feature.segments # <<>>
    /\ call.feature.segments[1].rollout = 100
    /\ call.feature.segments[1].conditions = <<>>
    /\ ~fres.value

\* SegmentData::in_rollout has returned
RolloutDone == call.kind = "in_rollout" /\ fres.done

\* the segments of the feature under evaluation
Segments == {call.feature.segments[i] : i \in DOMAIN call.feature.segments}

\* C15: a segment with rollout 0 is never in rollout and one with rollout 100
\* always is, whatever the bucket id; a feature whose segments all have
\* rollout 0 evaluates to false, and an enabled feature with a rollout-100
\* segment whose conditions all match evaluates to true.
C15_RolloutZeroNeverHundredAlways ==
    /\ (RolloutDone /\ call.rollout = 0) => fres.value = FALSE
    /\ (RolloutDone /\ call.rollout = 100) => fres.value = TRUE
    /\ (EvaluateDone /\ \A sg \in Segments : sg.rollout = 0)
          => fres.value = FALSE
    /\ (EvaluateDone /\ call.feature.enabled
          /\ \E sg \in Segments :
                /\ sg.rollout = 100
                /\ \A i \in DOMAIN sg.conditions :
                      ConditionEvaluate(sg.conditions[i], ctx))
          => fres.value = TRUE

\* C15 witness: an enabled feature was evaluated to true on a context of
\* bucket 0 < id < 100 whose first segment has rollout 0 and no conditions and
\* whose second has rollout 100 and a condition
C15_Witness ==
    /\ EvaluateDone
    /\ call.feature.enabled
    /\ Len(call.feature.segments) = 2
    /\ call.feature.segments[1].rollout = 0
    /\ call.feature.segments[1].conditions = <<>>
    /\ call.feature.segments[2].rollout = 100
    /\ call.feature.segments[2].conditions # <<>>
    /\ ComputeId(ctx) \in 1..99
    /\ fres.value

\* all conditions of the segment are true for the context under evaluation
Matches(sg) ==
    \A i \in DOMAIN sg.conditions : ConditionEvaluate(sg.conditions[i], ctx)

\* the segment admits the bucket of the context under evaluation
Admits(sg) ==
    \/ sg.rollout = 100
    \/ sg.rollout # 0 /\ ComputeId(ctx) <= sg.rollout

\* C16: an enabled feature evaluates to true if and only if some segment has
\* all its conditions true for the context (none counts as true) and is in
\* rollout; a segment that matches but is not in rollout does not end the
\* scan.
C16_TrueIffSomeSegmentOn ==
    (EvaluateDone /\ call.feature.enabled) =>
       (fres.value <=> \E sg \in Segments : Matches(sg) /\ Admits(sg))

\* C16 witness: the first segment matched without being in rollout and the
\* feature evaluated to true by its second segment
C16_Witness ==
    /\ EvaluateDone
    /\ call.feature.enabled
    /\ Len(call.feature.segments) = 2
    /\ Matches(call.feature.segments[1])
    /\ ~Admits(call.feature.segments[1])
    /\ call.feature.segments[1].rollout \in 1..99
    /\ Matches(call.feature.segments[2])
    /\ Admits(call.feature.segments[2])
    /\ fres.value

\* C17: a matching segment with 0 < rollout < 100 is in rollout exactly when
\* context.id() <= rollout, the bound included.
C17_InRolloutIffIdAtMostRollout ==
    /\ (RolloutDone /\ call.rollout \in 1..99)
          => (fres.value <=> call.id <= call.rollout)
    /\ (EvaluateDone /\ call.feature.enabled
          /\ Len(call.feature.segments) = 1
          /\ Matches(call.feature.segments[1])
          /\ call.feature.segments[1].rollout \in 1..99)
          => (fres.value <=>
                ComputeId(ctx) <= call.feature.segments[1].rollout)

\* C17 witness: a feature of one matching segment was evaluated to true on a
\* context whose bucket id equals the segment's rollout
C17_Witness ==
    /\ EvaluateDone
    /\ call.feature.enabled
    /\ Len(call.feature.segments) = 1
    /\ Matches(call.feature.segments[1])
    /\ call.feature.segments[1].rollout \in 1..99
    /\ ComputeId(ctx) = call.feature.segments[1].rollout
    /\ ctx.cached_id = ComputeId(ctx)
    /\ fres.value

\* the bucket ids for which a matching segment of this rollout is on
Admitted(rollout) == {id \in 0..(Buckets - 1) : InRolloutAt(rollout, id)}

\* C18: for every rollout r in 0..100, exactly r of the bucket ids 0..99 are
\* admitted by a matching segment of rollout r.
C18_RolloutIsPercentageOfBuckets ==
    (RolloutDone /\ call.rollout \in 0..100) =>
       /\ fres.value <=> call.id \in Admitted(call.rollout)
       /\ Cardinality(Admitted(call.rollout)) = call.rollout

\* ConditionData::evaluate has returned
ConditionDone == call.kind = "condition" /\ fres.done

\* C19: a condition on a property the context does not have evaluates to
\* false, for each of the six operator kinds and every operand.
C19_AbsentPropertyIsFalse ==
    (ConditionDone /\ call.condition.property \notin DOMAIN ctx.data)
       => fres.value = FALSE

\* the operator kind that negates, and the kind it negates
Positive(kind) ==
    CASE kind = "not_in" -> "in"
      [] kind = "not_contains" -> "contains"
      [] kind = "not_equals" -> "equals"

\* C20: on the same context, property and operand, NOT_IN, NOT_CONTAINS and
\* NOT_EQUALS return the negation of what IN, CONTAINS and EQUALS return, also
\* when the property is absent or a list where a scalar is expected (or the
\* reverse).
C20_NegatedKindsNegate ==
    (ConditionDone
       /\ call.condition.operator.kind
             \in {"not_in", "not_contains", "not_equals"}) =>
       LET kind == Positive(call.condition.operator.kind)
           prop == ContextGet(ctx, call.condition.property)
           value == call.condition.operator.value
           positive == CASE kind = "in" -> EvaluateIn(prop, value)
                         [] kind = "contains" -> EvaluateContains(prop, value)
                         [] kind = "equals" -> EvaluateEquals(prop, value)
       IN  fres.value = ~positive

\* C20 witness: NOT_CONTAINS was evaluated on a scalar property, where
\* CONTAINS expects a list, and returned true
C20_Witness ==
    /\ ConditionDone
    /\ call.condition.operator.kind = "not_contains"
    /\ call.condition.property \in DOMAIN ctx.data
    /\ ~IsList(ctx.data[call.condition.property])
    /\ fres.value

\* the property, operand and kind of the condition under evaluation
Prop == ContextGet(ctx, call.condition.property)
Operand == call.condition.operator.value
Kind == call.condition.operator.kind

\* the scalar type of a context value, and of a JSON operand
ScalarType(prop) ==
    CASE prop[1] = "String" -> "string"
      [] prop[1] = "Int" -> "int"
      [] prop[1] = "Float" -> "float"
      [] prop[1] = "Bool" -> "bool"
      [] OTHER -> "list"
JsonType(value) ==
    CASE value[1] = "string" -> "string"
      [] value[1] = "i64" -> "int"
      [] value[1] = "f64" -> "float"
      [] value[1] = "bool" -> "bool"
      [] OTHER -> value[1]

\* C21: IN is false when the property is a list or the operand is not an
\* array, CONTAINS is false when the property is a scalar, EQUALS is false
\* when the property is a list or property and operand are not of the same
\* scalar type (string, int, float, bool); each returns a bool.
C21_MismatchedCategoriesAreFalse ==
    (ConditionDone /\ Prop # NoValue) =>
       /\ fres.value \in BOOLEAN
       /\ (Kind = "in" /\ (IsList(Prop) \/ Operand[1] # "array"))
             => fres.value = FALSE
       /\ (Kind = "contains" /\ ~IsList(Prop)) => fres.value = FALSE
       /\ (Kind = "equals" /\ IsList(Prop)) => fres.value = FALSE
       /\ (Kind = "equals" /\ ScalarType(Prop) # JsonType(Operand))
             => fres.value = FALSE

\* str::to_uppercase, on the letters of the model
ToUppercase(v) ==
    CASE v = "a" -> "A"
      [] v = "b" -> "B"
      [] v = "i" -> "I"
      [] v = "U+0131" -> "I"
      [] OTHER -> v

\* a string and what it becomes when its letters change case
CaseVariants(v) == {v, ToLowercase(v), ToUppercase(v)}

\* a context value with the case of its strings changed
PropVariants(prop) ==
    CASE prop[1] = "String" -> {CvString(v) : v \in CaseVariants(prop[2])}
      [] prop[1] = "StringList" ->
            {CvStringList(l) :
                l \in {f \in [DOMAIN prop[2] ->
                                 UNION {CaseVariants(prop[2][i]) :
                                           i \in DOMAIN prop[2]}] :
                          \A i \in DOMAIN f : f[i] \in CaseVariants(prop[2][i])}}
      [] OTHER -> {prop}

\* an operand with the case of its strings changed
ElementVariants(value) ==
    IF value[1] = "string" THEN {JStr(v) : v \in CaseVariants(value[2])}
    ELSE {value}
OperandVariants(value) ==
    IF value[1] = "array"
    THEN {JArray(a) :
             a \in {f \in [DOMAIN value[2] ->
                              UNION {ElementVariants(value[2][i]) :
                                        i \in DOMAIN value[2]}] :
                       \A i \in DOMAIN f : f[i] \in ElementVariants(value[2][i])}}
    ELSE ElementVariants(value)

\* C22: IN, EQUALS and CONTAINS ignore letter case: changing the case of
\* letters in the context string (or string-list element) or in the operand
\* string never changes the result of the condition.
C22_StringComparisonsIgnoreCase ==
    (ConditionDone /\ Prop # NoValue /\ Kind \in {"in", "equals", "contains"})
       => \A prop \in PropVariants(Prop), value \in OperandVariants(Operand) :
             ConditionEvaluate(
                 ConditionData(call.condition.property, Kind, value),
                 [ctx EXCEPT !.data[call.condition.property] = prop])
               = fres.value

(***************************************************************************)
(* Claims about FeatureContext and its bucket id.                          *)
(***************************************************************************)
\* this step is a call of FeatureData::evaluate on the context
Evaluates == call'.kind = "evaluate" /\ <<call, ctx, fres>>' # <<call, ctx, fres>>

\* the context with nothing cached
Uncached(c) == [c EXCEPT !.cached_id = ID_NOT_COMPUTED]

\* C23: evaluate is deterministic: on the same feature and a context not
\* mutated in between, a call returns what the call before it returned, and
\* what it would return had the bucket id not been cached.
C23_EvaluateIsDeterministic ==
    /\ [][(Evaluates /\ call.kind = "evaluate" /\ call'.feature = call.feature)
            => fres'.value = fres.value]_vars
    /\ [][Evaluates =>
            fres'.value = Evaluate(call'.feature, Uncached(ctx)).result]_vars

\* C23 witness: a feature with a partial rollout was evaluated to true on a
\* context with fields and identity fields, and the bucket id is cached
C23_Witness ==
    /\ call.kind = "evaluate"
    /\ fres.done
    /\ fres.value
    /\ ctx.cached_id = ComputeId(ctx)
    /\ ctx.identity_fields # <<>>
    /\ DOMAIN ctx.data = Properties

\* the id computed from scratch from the fields and the identity-field list
FromScratch(c) == ComputeId(Uncached(c))

\* C24: after any sequence of insert, identity_fields and id calls, id()
\* returns the value computed from scratch from the current fields and
\* identity-field list; what is cached was computed after the last mutation.
C24_IdIsNeverStale ==
    /\ [][(call'.kind = "id" /\ <<call, ctx, fres>>' # <<call, ctx, fres>>)
            => fres'.value = FromScratch(ctx)]_vars
    /\ [](ctx.cached_id # ID_NOT_COMPUTED => ctx.cached_id = FromScratch(ctx))
    /\ [][(call'.kind \in {"insert", "identity_fields"}
             /\ <<call, ctx, fres>>' # <<call, ctx, fres>>)
            => ctx'.cached_id = ID_NOT_COMPUTED]_vars

\* C24 witness: id() returned the id of the value that the one field of the
\* context holds now, which is not the id of the other string a field may hold
C24_Witness ==
    /\ call.kind = "id"
    /\ fres.done
    /\ ctx.data = [k \in {"p"} |-> CvString("b")]
    /\ fres.value = Sha1Mod100("b")
    /\ fres.value # Sha1Mod100("a")

\* the names in a list of identity fields
Range(fields) == {fields[i] : i \in DOMAIN fields}

\* C25: two contexts with the same final key-to-value mapping and the same
\* set of identity fields have the same id, whatever the order of the
\* inserts and of the names passed to identity_fields and however often a
\* key was overwritten.
C25_IdDependsOnFinalFieldsOnly ==
    \A fields \in FieldLists :
       Range(fields) = Range(ctx.identity_fields) =>
          FromScratch(IdentityFields(ctx, fields)) = Id(ctx)

\* C26: id() always returns an integer in 0..99, and the cached slot holds
\* either the sentinel 255 or a value in 0..99, so that a computed id is
\* never taken for the sentinel.
C26_IdInRangeAndNotSentinel ==
    /\ (call.kind = "id" /\ fres.done) => fres.value \in 0..99
    /\ ctx.cached_id \in {ID_NOT_COMPUTED} \cup 0..99
    /\ ID_NOT_COMPUTED \notin 0..99
    /\ ComputeId(ctx) # ID_NOT_COMPUTED
    /\ (call.kind \in {"id", "evaluate"} /\ fres.done
          /\ ctx.cached_id # ID_NOT_COMPUTED) => ctx.cached_id \in 0..99

\* C26 witness: id() returned and left its value, above 90, in the cache
C26_Witness ==
    /\ call.kind = "id"
    /\ fres.done
    /\ fres.value \in 90..99
    /\ ctx.cached_id = fres.value

\* a sequence of bytes read as one big-endian base-256 integer
RECURSIVE BigEndian(_)
BigEndian(bytes) ==
    IF bytes = <<>> THEN 0
    ELSE BigEndian(SubSeq(bytes, 1, Len(bytes) - 1)) * 256 + bytes[Len(bytes)]

\* C27: the iterative reduction acc := (acc * 256 + byte) mod 100 over the
\* bytes from first to last yields the big-endian base-256 integer of the
\* bytes mod 100, and no intermediate value exceeds 99 * 256 + 255, far below
\* the 2^128 the accumulator holds.
C27_ReductionIsBigEndianMod100 ==
    (call.kind = "reduce" /\ fres.done) =>
       /\ fres.value = BigEndian(call.bytes) % 100
       /\ \A v \in Intermediates(0, call.bytes) : v <= 99 * 256 + 255

\* C27 witness: three bytes whose integer exceeds 2^16 were reduced, through
\* an intermediate value above 100
C27_Witness ==
    /\ call.kind = "reduce"
    /\ fres.done
    /\ Len(call.bytes) = 3
    /\ BigEndian(call.bytes) > 65536
    /\ \E v \in Intermediates(0, call.bytes) : v > 25000
    /\ fres.value = BigEndian(call.bytes) % 100

\* C28: a context with no fields and no identity fields has id() = 5, the
\* SHA-1 digest of the empty string reduced mod 100.
C28_EmptyContextIdIsFive ==
    (call.kind = "id" /\ fres.done
       /\ DOMAIN ctx.data = {} /\ ctx.identity_fields = <<>>)
       => fres.value = 5 /\ ctx.cached_id = 5

\* C28 witness: id() returned 5 on a context that has no fields and no
\* identity fields
C28_Witness ==
    /\ call.kind = "id"
    /\ fres.done
    /\ ctx.data = NewContext.data
    /\ ctx.identity_fields = <<>>
    /\ fres.value = 5

(***************************************************************************)
(* Claims about the testing module.                                        *)
(***************************************************************************)
\* guard g is dropped in this step
Drops(g) == g \in DOMAIN guards /\ guards[g].live /\ ~guards'[g].live

\* a guard is created in this step
Creates == Len(guards') = Len(guards) + 1

\* what get_override reads for each pair once the batch is applied
BatchValue(batch, namespace, key) ==
    MapGet(ApplyBatch(EmptyStore, batch, <<>>).map, namespace, key)

\* the batch names the pair
Names(batch, p) == \E i \in 1..Len(batch) : <<batch[i][1], batch[i][2]>> = p

\* C1: Options::get of a registered namespace returns the calling thread's
\* override when it has one for the key, the snapshot's value only when it
\* has none, and the schema default only when neither holds the key.
C1_GetConsultsOverridesFirst ==
    [][\A t \in Threads :
         GetReturns(t) =>
            LET n == pc[t].ns
                k == pc[t].key
                o == GetOverride(t, n, k)
            IN  ret' = Returned(t, n, k,
                          IF o # NoValue THEN Ok(o)
                          ELSE GetLocked(registry, values, n, k))]_vars

\* C4: with the store initialised, override_options succeeds only if every
\* entry of its batch is valid, and a call that fails leaves every thread's
\* override store and the guards as they were.
C4_InvalidBatchAppliesNothing ==
    [][/\ (last'.op = "override_options" /\ ~last'.ok) =>
             /\ initialized
             /\ overrides' = overrides
             /\ guards' = guards
       /\ (Creates /\ initialized) =>
             \A e \in {guards'[Len(guards')].batch[i] :
                          i \in 1..Len(guards'[Len(guards')].batch)} :
                ValidateOverride(registry, e[1], e[2], e[3]) = "Ok"]_vars

\* C4 witness: a batch was rejected for its second entry, its first one valid
C4_Witness ==
    /\ initialized
    /\ last.op = "override_options"
    /\ ~last.ok
    /\ last.at = 2

C6_NestedGuardsUnwind ==
    /\ [](\A t \in Threads :
            (nested[t] /\ LiveGuards(t) # {}) =>
               LET g == CHOOSE h \in LiveGuards(t) :
                           \A m \in LiveGuards(t) : m <= h
               IN  \A p \in Pairs :
                      Names(guards[g].batch, p) =>
                         GetOverride(t, p[1], p[2])
                            = BatchValue(guards[g].batch, p[1], p[2]))
    /\ [][\A g \in DOMAIN guards, t \in Threads :
            (Drops(g) /\ t = guards[g].creator /\ nested'[t]) =>
               \A p \in Pairs :
                  GetOverride(t, p[1], p[2])'
                     = MapGet(guards[g].pre, p[1], p[2])]_vars

\* C7: after its creator drops a guard whose batch names a pair more than
\* once, get_override reads for that pair what it read before the batch was
\* applied.
C7_DropRestoresRepeatedPairs ==
    [][\A g \in DOMAIN guards, t \in Threads :
         (Drops(g) /\ last'.t = t /\ t = guards[g].creator
             /\ ~DistinctPairs(guards[g].batch)) =>
            \A p \in Pairs :
               Names(guards[g].batch, p) =>
                  GetOverride(t, p[1], p[2])'
                     = MapGet(guards[g].pre, p[1], p[2])]_vars

InitReturns ==
    \/ builds' # builds /\ pc' = pc
    \/ \E t \in Threads : pc[t] = Built /\ pc'[t] = Idle

\* C29: across any interleaving of init() calls at most one call installs
\* the global store and returns Ok, every init() that returns once one has
\* succeeded returns AlreadyInitialized, and the installed store is never
\* replaced.
C29_InitInstallsOnce ==
    /\ [][InitReturns =>
            IF initialized
            THEN ret'.kind = "AlreadyInitialized"
            ELSE ret'.kind = "Ok" =>
                    initialized' /\ installed' # NotInstalled]_vars
    /\ [][installed # NotInstalled => installed' = installed]_vars

\* a step of the watcher's reload, or of its thread
WatcherActs ==
    \/ wpc' # wpc
    \/ values' # values
    \/ wlocal' # wlocal
    \/ writing' # writing
    \/ diagnostics' # diagnostics

\* C30: once the drop of an Options has completed, the watcher thread of
\* that store has ended, and no reload of the store runs any more: no load,
\* no lock, no swap and no diagnostic, whatever is written to the directory.
C30_DropStopsWatcher ==
    /\ [](life = "dropped" => wpc = "stopped")
    /\ [][life = "dropped" => ~WatcherActs]_vars

\* C30 witness: the store is dropped, and a change of the directory to
\* content that loads and differs from the snapshot waits unhandled
C30_Witness ==
    /\ life = "dropped"
    /\ changed
    /\ values # LoadValuesJson(registry, disk).values
    /\ LoadValuesJson(registry, disk).ok

(***************************************************************************)
(* Claims about what the store serves in the long run.                     *)
(***************************************************************************)
\* what the values directory holds, loaded
OnDisk == LoadValuesJson(registry, disk)

\* get answers every declared key from the directory's content
ServesDisk ==
    \A n \in DOMAIN registry, k \in Keys :
        GetLocked(registry, values, n, k) = GetLocked(registry, OnDisk.values, n, k)

OverrideReturns ==
    /\ call'.kind = "override_options"
    /\ call' # call \/ fres' # fres \/ ops' # ops \/ last' # last

KindOf(ty) ==
    CASE ty = "int" -> "i64"
      [] ty = "bool" -> "bool"
      [] ty = "str" -> "string"
      [] ty = "float" -> "f64"

\* what the claim says of one entry
EntryVerdict(e) ==
    IF e[1] \notin DOMAIN registry THEN "UnknownNamespace"
    ELSE IF e[2] \notin DOMAIN registry[e[1]] THEN "Schema"
    ELSE IF e[3][1] # KindOf(registry[e[1]][e[2]].option_type) THEN "Schema"
    ELSE "Ok"

\* C33: with the store initialised, override_options answers a batch whose
\* entries all have a registered namespace, a declared key and a value of the
\* declared type with Ok, and any other batch with the error of its first
\* bad entry: UnknownNamespace for an unregistered namespace, a Schema error
\* for an undeclared key or a value of another type.
C33_InitialisedValidatesEntries ==
    [][(OverrideReturns /\ initialized) =>
          LET b == call'.batch
              bad == {i \in 1..Len(b) : EntryVerdict(b[i]) # "Ok"}
          IN  IF bad = {}
              THEN fres'.value = "Ok" /\ Creates
              ELSE /\ \E i \in bad :
                        /\ \A j \in bad : i <= j
                        /\ fres'.value = EntryVerdict(b[i])
                   /\ ~Creates]_vars

\* C33 witness: after init(), a batch whose first entry is good and whose
\* second names a key the schema does not declare returned a Schema error,
\* and no entry is applied
C33_Witness ==
    /\ initialized
    /\ call.kind = "override_options"
    /\ Len(call.batch) = 2
    /\ EntryVerdict(call.batch[1]) = "Ok"
    /\ call.batch[2][1] \in DOMAIN registry
    /\ call.batch[2][2] \notin DOMAIN registry[call.batch[2][1]]
    /\ fres = Result("Schema")
    /\ guards = <<>>
    /\ \A t \in Threads : overrides[t] = EmptyStore

(***************************************************************************)
(* Claims about the load of a schema.                                      *)
(***************************************************************************)
\* C34: every option of a schema that load_schema accepted has a default of
\* the JSON kind of its declared type, so that a schema.json declaring a
\* default of another kind fails to load.
C34_LoadedDefaultsHaveDeclaredType ==
    (call.kind = "load_schema" /\ fres.done /\ fres.value.ok) =>
        \A k \in DOMAIN fres.value.schema :
            LET o == fres.value.schema[k]
            IN  o.default[1] = KindOf(o.option_type)

(***************************************************************************)
(* Claims about id() on a shared context.                                  *)
(***************************************************************************)
\* what id() returns on a context of its own with these fields
SingleThreaded(c) ==
    Id(FeatureContext(c.data, c.identity_fields, ID_NOT_COMPUTED))

\* C35: when several threads call id() on one shared FeatureContext that
\* nobody mutates, every call returns the value a single-threaded call
\* returns, whichever of them computed and stored it, and the slot holds
\* that value or none.
C35_SharedIdIsTheSingleThreadedId ==
    /\ \A t \in Threads : fres[t].done => fres[t].value = SingleThreaded(ctx)
    /\ ctx.cached_id \in {ID_NOT_COMPUTED, SingleThreaded(ctx)}

\* C35 witness: both threads found the slot empty, both computed and stored,
\* and both have returned
C35_Witness ==
    /\ \A t \in Threads :
          /\ call[t].st = "idle"
          /\ call[t].cached = ID_NOT_COMPUTED
          /\ call[t].computed # ID_NOT_COMPUTED
          /\ fres[t].done
    /\ ctx.cached_id # ID_NOT_COMPUTED
    /\ ctx.identity_fields # <<>>
    /\ DOMAIN ctx.data = Properties

(***************************************************************************)
(* Claims about FeatureChecker::has on the live store.                     *)
(***************************************************************************)
\* thread t's has returns in this step
HasReturns(t) ==
    /\ call'.kind = "has"
    /\ call'.t = t
    /\ call' # call \/ fres' # fres \/ ctx' # ctx

\* the config in force for thread t: its override of features.f if it has
\* one, else what the snapshot and the schema give
ConfigInForce(t) ==
    LET o == GetOverride(t, "n1", FeatureKey)
    IN  IF o # NoValue THEN Ok(o) ELSE Get(registry, values, "n1", FeatureKey)

\* C36: every has() is decided by the config in force when it is called,
\* parsed then: the calling thread's override of features.{name} if it has
\* one, else the current snapshot's value, else the default; a config that
\* was in force at an earlier call decides nothing.
C36_HasReflectsCurrentConfig ==
    [][\A t \in Threads :
         HasReturns(t) =>
            fres'.value = Has(ConfigInForce(t), call'.arg).result]_vars

(***************************************************************************)
(* Claims about what the bucket id depends on.                             *)
(***************************************************************************)
\* the identity fields the context has a value for, in the order of the list
PresentIdentity(c) ==
    SelectSeq(c.identity_fields, LAMBDA f : f \in DOMAIN c.data)

\* their values as printed, without their names
PresentValues(c) ==
    [i \in 1..Len(PresentIdentity(c)) |-> Display(c.data[PresentIdentity(c)[i]])]

\* C37: with a non-empty list of identity fields, the id that id() returns
\* is the hash of the printed values of the identity fields that are
\* present, joined by ":", and of nothing else: the names are not hashed, an
\* insert of any value under a name that is not an identity field leaves the
\* id as it is, and so does striking an absent field from the list.
C37_IdDependsOnPresentIdentityValues ==
    (call.kind = "id" /\ ctx.identity_fields # <<>>) =>
        /\ fres.value = Sha1Mod100(Join(PresentValues(ctx)))
        /\ \A k \in Properties \ Range(ctx.identity_fields), v \in InsertValues :
              Id(Insert(ctx, k, v)) = fres.value
        /\ \A f \in Range(ctx.identity_fields) \ DOMAIN ctx.data :
              LET rest == SelectSeq(ctx.identity_fields, LAMBDA x : x # f)
              IN  rest # <<>> => Id(IdentityFields(ctx, rest)) = fres.value

\* C37 witness: id() returned on a context whose one identity field has a
\* value and which holds a value under another name as well
C37_Witness ==
    /\ call.kind = "id"
    /\ ctx.identity_fields = <<"p">>
    /\ DOMAIN ctx.data = Properties
    /\ ctx.data["p"] # ctx.data["q"]
    /\ fres.value = Sha1Mod100(Display(ctx.data["p"]))

(***************************************************************************)
(* Claims about guards dropped out of order and away from their thread.    *)
(***************************************************************************)
\* C38: once every guard that override_options created on a thread has
\* been dropped by that thread, in whatever order, the thread's override
\* store reads for every (namespace, key) what it read before the first of
\* them was created; here, on threads that start without overrides, None.
C38_AllGuardsDroppedRestoresStore ==
    \A t \in Threads :
        LiveGuards(t) = {} =>
            \A p \in Pairs : GetOverride(t, p[1], p[2]) = NoValue

\* C39: a guard dropped on a thread other than the one that created it
\* changes nothing of what that other thread's get_override reads, and
\* restores on the creating thread, for each pair its batch names once, what
\* was read there before the guard was created.
C39_DropRestoresCreatorsStore ==
    [][\A g \in DOMAIN guards, u \in Threads :
         (Drops(g) /\ last'.t = u /\ u # guards[g].creator) =>
            /\ \A p \in Pairs :
                  GetOverride(u, p[1], p[2])' = GetOverride(u, p[1], p[2])
            /\ \A t \in Threads, p \in Pairs :
                  (t = guards[g].creator /\ DistinctPairs(guards[g].batch)
                     /\ Names(guards[g].batch, p)) =>
                     GetOverride(t, p[1], p[2])'
                        = MapGet(guards[g].pre, p[1], p[2])]_vars

(***************************************************************************)
(* Claims about the stores init() builds and discards.                     *)
(***************************************************************************)
\* no call of init() is between Options::new() and its return
NoInitInProgress == \A t \in Threads : pc[t] = Idle

\* C40: an init() that returns an error, from the load or because the
\* store was already installed, leaves GLOBAL_OPTIONS and the installed
\* store's values as they were; and whenever no init() is in progress, the
\* only watcher thread running is that of the installed store: none before
\* an init() has succeeded, exactly one afterwards.
C40_FailedInitLeavesNoWatcher ==
    /\ [][(InitReturns /\ ret'.kind # "Ok") =>
            /\ installed' = installed
            /\ initialized' = initialized
            /\ values' = values]_vars
    /\ [](NoInitInProgress =>
            watchers = IF installed = NotInstalled THEN {} ELSE {installed})

\* C40 witness: the store installed is that of the second init() to begin,
\* every followed call has returned, and the last to return had built a
\* store of its own and returned AlreadyInitialized
C40_Witness ==
    /\ NoInitInProgress
    /\ installed # NotInstalled
    /\ ret.kind = "AlreadyInitialized"
    /\ builds = MaxInits
    /\ installed[2] = 2

====
